---- MODULE Spec2Model ----
(***************************************************************************)
(* A model of the persistent transaction mempool of src/core/mempool.rs:   *)
(* the mempool table with its uniqueness constraints, the counting Bloom   *)
(* filter of recent txids, the removed_txids (tombstone) table and the     *)
(* randomized_txids (pager) table, driven by submit, submit_raw,           *)
(* garbage_collect and drop_txs.                                           *)
(***************************************************************************)
EXTENDS Integers, Sequences, FiniteSets, TLC

\* ------------------------------------------------------------------------
\* Bounds of the model
\* ------------------------------------------------------------------------

\* number of write operations in one behaviour
MaxOps == 4

\* max_tx_tags of the model's mempool (DEFAULT_MAX_TX_TAGS is 2048)
TxTagCapacity == 3

\* number of write operations in one behaviour that tracks runs of submits
MaxRunOps == 3

\* number of write operations in one behaviour in which operations meet faults
MaxFaultOps == 3

\* fees range over 1..MaxFee
MaxFee == 2

\* origin nonces range over 0..MaxNonce
MaxNonce == 1

\* node seeds range over 1..MaxSeed
MaxSeed == 1

\* capacity of the Bloom counter in the model; the program's value is 8192
BloomCapacity == 2

\* ------------------------------------------------------------------------
\* Program constants
\* ------------------------------------------------------------------------

BLOOM_COUNTER_DEPTH == 2

MAX_BLOOM_COUNTER_TXS == BloomCapacity

\* ------------------------------------------------------------------------
\* Transactions
\* ------------------------------------------------------------------------

Addresses == {"A", "B"}

Nonces == 0..MaxNonce

Fees == 1..MaxFee

Seeds == 1..MaxSeed

NoSponsor == "none"

\* A transaction as a client builds it: the origin account and nonce, an
\* optional sponsor account and nonce, and the fee.  Every (origin, nonce, fee)
\* occurs unsponsored; the account A at nonce 0 also occurs sponsored by B at
\* B's nonce 0.
UnsponsoredTxs ==
    { [origin |-> a, nonce |-> n, sponsor |-> NoSponsor, sponsor_nonce |-> 0, fee |-> f] :
        a \in Addresses, n \in Nonces, f \in Fees }

SponsoredTxs ==
    { [origin |-> "A", nonce |-> 0, sponsor |-> "B", sponsor_nonce |-> 0, fee |-> f] :
        f \in Fees }

Transactions == UnsponsoredTxs \cup SponsoredTxs

AddrIndex(a) == IF a = "A" THEN 0 ELSE 1

\* StacksTransaction::txid(): a hash of the transaction's content, so distinct
\* transactions have distinct txids.
TxidOf(tx) ==
    1 + (tx.fee - 1)
      + MaxFee * ( tx.nonce
                 + (MaxNonce + 1) * ( AddrIndex(tx.origin)
                                    + 2 * (IF tx.sponsor = NoSponsor THEN 0 ELSE 1) ) )

Txids == { TxidOf(tx) : tx \in Transactions }

\* The length of the serialized transaction (tx_bytes.len()): a sponsored
\* transaction carries a second spending condition.
TxLength(tx) == IF tx.sponsor = NoSponsor THEN 1 ELSE 2

AddrOfIndex(i) == IF i = 0 THEN "A" ELSE "B"

\* StacksTransaction::consensus_serialize: the bytes of a transaction, one
\* element per spending condition.  The first element carries the
\* authorization kind (0 standard, 1 sponsored), the origin account, its nonce
\* and the fee; the second, present for a sponsored transaction only, the
\* sponsor account and its nonce.
consensus_serialize(tx) ==
    LET origin_condition ==
            AddrIndex(tx.origin) + 2 * (tx.nonce + (MaxNonce + 1) * tx.fee)
    IN  IF tx.sponsor = NoSponsor
        THEN << 2 * origin_condition >>
        ELSE << 2 * origin_condition + 1,
                AddrIndex(tx.sponsor) + 2 * tx.sponsor_nonce >>

NoTx == [ origin |-> NoSponsor ]

\* A deserialization that reads the origin's spending condition only.
ConsensusDeserializeStandardOnly(bytes) ==
    IF Len(bytes) = 0
    THEN NoTx
    ELSE LET origin_condition == bytes[1] \div 2
         IN  [ origin |-> AddrOfIndex(origin_condition % 2),
               nonce |-> (origin_condition \div 2) % (MaxNonce + 1),
               sponsor |-> NoSponsor,
               sponsor_nonce |-> 0,
               fee |-> (origin_condition \div 2) \div (MaxNonce + 1) ]

\* StacksTransaction::consensus_deserialize of a whole buffer: the transaction
\* the bytes encode; NoTx when they are too short for the authorization kind
\* they announce.
consensus_deserialize(bytes) ==
    IF Len(bytes) = 0 \/ Len(bytes) < 1 + (bytes[1] % 2)
    THEN NoTx
    ELSE LET origin_condition == bytes[1] \div 2
             sponsored == bytes[1] % 2 = 1
         IN  [ origin |-> AddrOfIndex(origin_condition % 2),
               nonce |-> (origin_condition \div 2) % (MaxNonce + 1),
               sponsor |-> IF sponsored THEN AddrOfIndex(bytes[2] % 2) ELSE NoSponsor,
               sponsor_nonce |-> IF sponsored THEN bytes[2] \div 2 ELSE 0,
               fee |-> (origin_condition \div 2) \div (MaxNonce + 1) ]

\* ------------------------------------------------------------------------
\* Chainstate (the collaborator whose contracts the mempool consumes)
\* ------------------------------------------------------------------------

\* genesis -> b1 -> b2 -> b3
\*              \-> c2
\* "genesis" is the tip (FIRST_BURNCHAIN_CONSENSUS_HASH, FIRST_STACKS_BLOCK_HASH),
\* for which the chainstate holds no block header; "stray" is a tip of the same
\* consensus hash and another block hash; "unknown" is any other tip the
\* chainstate has no header for.
GenesisTip == "genesis"

StrayGenesisTip == "stray"

UnknownTip == "unknown"

KnownBlocks == {"b1", "b2", "b3", "c2"}

Tips == KnownBlocks \cup {GenesisTip, StrayGenesisTip, UnknownTip}

FIRST_BURNCHAIN_CONSENSUS_HASH == "first"

\* The consensus hash of a tip; every block of the tree has its own.
ConsensusHashOf(tip) ==
    IF tip \in {GenesisTip, StrayGenesisTip} THEN FIRST_BURNCHAIN_CONSENSUS_HASH ELSE tip

\* The tips clients submit at: every tip but b2, which only links b3 to b1,
\* and the stray tip.
SubmitTips == Tips \ {"b2", StrayGenesisTip}

None == 0 - 1

ParentBlock(b) ==
    CASE b = "b2" -> "b1"
      [] b = "b3" -> "b2"
      [] b = "c2" -> "b1"
      [] OTHER -> GenesisTip

RECURSIVE BlockHeight(_)
BlockHeight(b) == IF b \in KnownBlocks THEN 1 + BlockHeight(ParentBlock(b)) ELSE 0

RECURSIVE AncestorsOf(_)
AncestorsOf(b) == IF b \in KnownBlocks THEN {b} \cup AncestorsOf(ParentBlock(b)) ELSE {}

\* StacksChainState::get_stacks_block_height: the height of a block the
\* chainstate has a header for, None otherwise.
get_stacks_block_height(tip) == IF tip \in KnownBlocks THEN BlockHeight(tip) ELSE None

\* get_ancestor_block_height(tip, other): the height of `other` when it is
\* `tip` or an ancestor of it in the chainstate's header index, None otherwise.
get_ancestor_block_height(tip, other) ==
    IF other \in AncestorsOf(tip) THEN BlockHeight(other) ELSE None

\* A fork test that looks for the first block among the ancestors of the
\* second only.
AreBlocksInSameForkOneWay(first_block, second_block) ==
    IF second_block = first_block
    THEN TRUE
    ELSE get_ancestor_block_height(second_block, first_block) # None

\* MemPoolDB::are_blocks_in_same_fork
are_blocks_in_same_fork(first_block, second_block) ==
    IF second_block = first_block
    THEN TRUE
    ELSE LET height_of_first_with_second_tip ==
                 get_ancestor_block_height(second_block, first_block)
             height_of_second_with_first_tip ==
                 get_ancestor_block_height(first_block, second_block)
         IN  ~ ( height_of_first_with_second_tip = None
                 /\ height_of_second_with_first_tip = None )

\* ------------------------------------------------------------------------
\* Rows and tables
\* ------------------------------------------------------------------------

\* The row tx_submit builds for try_add_tx: an unsponsored transaction uses
\* its origin account and nonce as sponsor account and nonce.
MakeRow(tx, tip, height) ==
    [ txid |-> TxidOf(tx),
      origin_address |-> tx.origin,
      origin_nonce |-> tx.nonce,
      sponsor_address |-> IF tx.sponsor = NoSponsor THEN tx.origin ELSE tx.sponsor,
      sponsor_nonce |-> IF tx.sponsor = NoSponsor THEN tx.nonce ELSE tx.sponsor_nonce,
      tx_fee |-> tx.fee,
      length |-> TxLength(tx),
      tip |-> tip,
      height |-> height,
      tx |-> consensus_serialize(tx) ]

\* Sha512Trunc256Sum(seed || txid), as a number: injective in txid for a
\* fixed seed, a different order of the txids for a different seed, and never
\* the all-zero hash (0).
HashedTxid(s, txid) == 1 + (((3 + 4 * s) * txid + 5 * s) % 61)

SaturatingSub(a, b) == IF a > b THEN a - b ELSE 0

SetMax(S) == CHOOSE x \in S : \A y \in S : y <= x

LiveTxids(rows) == { r.txid : r \in rows }

\* ON DELETE CASCADE of removed_txids and randomized_txids onto mempool(txid)
DeleteRows(db, txids) ==
    [ db EXCEPT
        !.mempool = { r \in db.mempool : r.txid \notin txids },
        !.removed_txids = db.removed_txids \ txids,
        !.randomized_txids = { p \in db.randomized_txids : p.txid \notin txids } ]

\* BloomCounter::insert_raw
BloomInsert(db, txid) ==
    [ db EXCEPT !.bloom_counter[txid] = @ + 1 ]

\* BloomCounter::remove_raw: decrements the counters of an item the filter
\* holds; an item it does not hold is left alone (and noted).
BloomRemove(db, txid) ==
    IF db.bloom_counter[txid] > 0
    THEN [ db EXCEPT !.bloom_counter[txid] = @ - 1 ]
    ELSE [ db EXCEPT !.underflow = TRUE ]

RECURSIVE BloomRemoveAll(_, _)
BloomRemoveAll(db, txids) ==
    IF txids = {}
    THEN db
    ELSE LET t == CHOOSE x \in txids : TRUE
         IN  BloomRemoveAll(BloomRemove(db, t), txids \ {t})

\* MemPoolDB::get_max_height
get_max_height(rows) ==
    IF rows = {} THEN None ELSE SetMax({ r.height : r \in rows })

\* MemPoolDB::get_num_recent_txs
get_num_recent_txs(rows) ==
    LET max_height == get_max_height(rows)
    IN  IF max_height = None
        THEN 0
        ELSE LET min_height == SaturatingSub(max_height, BLOOM_COUNTER_DEPTH)
             IN  Cardinality({ r \in rows : r.height > min_height /\ r.height <= max_height })

\* MemPoolDB::get_bloom_txids
get_bloom_txids(db) ==
    LET max_height == get_max_height(db.mempool)
    IN  IF max_height = None
        THEN {}
        ELSE LET min_height == SaturatingSub(max_height, BLOOM_COUNTER_DEPTH)
             IN  { r.txid : r \in { q \in db.mempool :
                                      /\ q.height > min_height
                                      /\ q.height <= max_height
                                      /\ q.txid \notin db.removed_txids } }

\* ------------------------------------------------------------------------
\* The write path: try_add_tx and what it calls
\* ------------------------------------------------------------------------

NoTxid == 0

\* MemPoolDB::get_tx_metadata_by_address
get_tx_metadata_by_address(rows, is_origin, addr, nonce) ==
    IF is_origin
    THEN { r \in rows : r.origin_address = addr /\ r.origin_nonce = nonce }
    ELSE { r \in rows : r.sponsor_address = addr /\ r.sponsor_nonce = nonce }

\* The prior row of try_add_tx: the row with the same origin (address, nonce),
\* and only when there is none the row with the same sponsor (address, nonce).
\* A set with at most one row.
PriorTx(rows, row) ==
    LET by_origin == get_tx_metadata_by_address(rows, TRUE, row.origin_address, row.origin_nonce)
    IN  IF by_origin # {}
        THEN by_origin
        ELSE get_tx_metadata_by_address(rows, FALSE, row.sponsor_address, row.sponsor_nonce)

\* An error or a panic raised inside the write transaction: the function at
\* hand returns at once, and so does each caller through its `?`.
Raise(db, err) == [ db EXCEPT !.raised = err ]

\* MemPoolTx::take_bloom_state: the handle leaves the transaction; taking it
\* when it is out panics.
take_bloom_state(db) ==
    IF db.bloom_state = "Some"
    THEN [ db EXCEPT !.bloom_state = "None" ]
    ELSE Raise(db, "panic")

\* MemPoolTx::replace_bloom_state
replace_bloom_state(db) == [ db EXCEPT !.bloom_state = "Some" ]

\* MemPoolDB::prune_bloom_counter: the first remove_raw that fails returns
\* the error, with the handle still out.
prune_bloom_counter(db, target_height) ==
    LET txids == { r.txid : r \in { q \in db.mempool :
                                      /\ q.height = target_height
                                      /\ q.txid \notin db.removed_txids } }
        taken == take_bloom_state(db)
        pruned == BloomRemoveAll(taken, txids)
    IN  IF taken.raised # "none"
        THEN taken
        ELSE IF txids # {} /\ "bloom" \in db.faults
        THEN Raise(taken, "DBError")
        ELSE replace_bloom_state([ pruned EXCEPT !.removed_txids = @ \cup txids ])

\* The rows the saturation check of update_bloom_counter may evict: ORDER BY
\* tx_fee ASC LIMIT 1 leaves the choice among rows of equal fee to the store.
EvictCandidates(db, height) ==
    LET eligible == { r \in db.mempool :
                        /\ r.height > SaturatingSub(height, BLOOM_COUNTER_DEPTH)
                        /\ r.txid \notin db.removed_txids }
    IN  { r.txid : r \in { q \in eligible : \A o \in eligible : q.tx_fee <= o.tx_fee } }

\* MemPoolDB::update_bloom_counter; the results are the states the write
\* transaction may be left in, each with the txid it evicted (NoTxid: none).
\* An error of prune_bloom_counter is returned before the handle is taken;
\* once it is taken, the first of remove_raw (of the prior, of the evicted)
\* and insert_raw that fails returns the error with the handle still out,
\* and nothing written since it was taken.
update_bloom_counter(db, height, txid, prior_txid) ==
    LET present == \E r \in db.mempool : r.height = height
        advanced == IF ~present /\ height > BLOOM_COUNTER_DEPTH
                    THEN prune_bloom_counter(db, height - BLOOM_COUNTER_DEPTH)
                    ELSE db
        taken == take_bloom_state(advanced)
        unreplaced == IF prior_txid # NoTxid THEN BloomRemove(taken, prior_txid) ELSE taken
        num_recents == get_num_recent_txs(unreplaced.mempool)
        candidates == IF num_recents >= MAX_BLOOM_COUNTER_TXS
                      THEN EvictCandidates(unreplaced, height)
                      ELSE {}
    IN  IF advanced.raised # "none"
        THEN { [ db |-> advanced, evict_txid |-> NoTxid ] }
        ELSE IF taken.raised # "none"
        THEN { [ db |-> taken, evict_txid |-> NoTxid ] }
        ELSE IF "bloom" \in db.faults
        THEN { [ db |-> Raise(taken, "DBError"), evict_txid |-> NoTxid ] }
        ELSE IF candidates = {}
        THEN { [ db |-> replace_bloom_state(BloomInsert(unreplaced, txid)),
                 evict_txid |-> NoTxid ] }
        ELSE { [ db |-> replace_bloom_state(BloomInsert(
                            [ BloomRemove(unreplaced, e) EXCEPT !.removed_txids = @ \cup {e} ],
                            txid)),
                 evict_txid |-> e ] : e \in candidates }

InsertOrReplaceByTxidAndOrigin(db, row) ==
    LET colliding == { r.txid : r \in { q \in db.mempool :
                          \/ q.txid = row.txid
                          \/ (q.origin_address = row.origin_address
                              /\ q.origin_nonce = row.origin_nonce) } }
        cleared == DeleteRows(db, colliding)
    IN  [ cleared EXCEPT !.mempool = @ \cup {row} ]

\* INSERT OR REPLACE INTO mempool: every row that collides with the new one on
\* the primary key or on either UNIQUE constraint is deleted (with its
\* cascades) and the new row is inserted.
InsertOrReplaceMempool(db, row) ==
    LET colliding == { r.txid : r \in { q \in db.mempool :
                          \/ q.txid = row.txid
                          \/ (q.origin_address = row.origin_address
                              /\ q.origin_nonce = row.origin_nonce)
                          \/ (q.sponsor_address = row.sponsor_address
                              /\ q.sponsor_nonce = row.sponsor_nonce) } }
        cleared == DeleteRows(db, colliding)
    IN  [ cleared EXCEPT !.mempool = @ \cup {row} ]

UpdatePagerUnseeded(db, txid) ==
    [ db EXCEPT !.randomized_txids =
        { p \in @ : p.txid # txid }
          \cup { [ txid |-> txid, hashed_txid |-> HashedTxid(0, txid) ] } ]

\* MemPoolDB::update_mempool_pager: the handle is taken to read the seed and
\* put back before the row is written.
update_mempool_pager(db, txid) ==
    LET taken == take_bloom_state(db)
        seeded == replace_bloom_state(taken)
    IN  IF taken.raised # "none"
        THEN taken
        ELSE [ seeded EXCEPT !.randomized_txids =
                 { p \in @ : p.txid # txid }
                   \cup { [ txid |-> txid, hashed_txid |-> HashedTxid(seeded.seed, txid) ] } ]

NoEvent == [ txids |-> {}, reason |-> "none" ]

ReplaceDecisionByFeeRate(prior, row) ==
    IF row.tx_fee * prior.length > prior.tx_fee * row.length
    THEN "ReplaceByFee"
    ELSE IF ~are_blocks_in_same_fork(prior.tip, row.tip)
         THEN "ReplaceAcrossFork"
         ELSE "reject"

ReplaceDecisionReportedByFee(prior, row) ==
    IF row.tx_fee > prior.tx_fee
    THEN "ReplaceByFee"
    ELSE IF ~are_blocks_in_same_fork(prior.tip, row.tip)
         THEN "ReplaceByFee"
         ELSE "reject"

ReplaceDecisionAcrossAnyTip(prior, row) ==
    IF row.tx_fee > prior.tx_fee
    THEN "ReplaceByFee"
    ELSE "ReplaceAcrossFork"

ReplaceDecisionOnEqualFee(prior, row) ==
    IF row.tx_fee >= prior.tx_fee
    THEN "ReplaceByFee"
    ELSE IF ~are_blocks_in_same_fork(prior.tip, row.tip)
         THEN "ReplaceAcrossFork"
         ELSE "reject"

\* The fee/fork decision of try_add_tx against the prior row.
ReplaceDecision(prior, row) ==
    IF row.tx_fee > prior.tx_fee
    THEN "ReplaceByFee"
    ELSE IF ~are_blocks_in_same_fork(prior.tip, row.tip)
         THEN "ReplaceAcrossFork"
         ELSE "reject"

\* The faults an operation may meet: the chainstate fails to look up the
\* height of the tip, the chainstate fails to look up the ancestry of two
\* tips, the commit of the write transaction fails, the statements of the
\* Bloom counter (remove_raw, insert_raw) fail.
Faults == {"height", "ancestry", "commit", "bloom"}

\* try_add_tx asks are_blocks_in_same_fork only when the new fee is not higher
\* than the prior's, and the chainstate is consulted only for different tips;
\* an error of that lookup is returned by try_add_tx.
AncestryLookupFails(db, prior, row) ==
    /\ "ancestry" \in db.faults
    /\ ~(row.tx_fee > prior.tx_fee)
    /\ prior.tip # row.tip

\* MemPoolDB::try_add_tx; the results are the outcomes the call may have.
try_add_tx(db, row, observed) ==
    LET prior_tx == PriorTx(db.mempool, row)
        prior == CHOOSE r \in prior_tx : TRUE
        decision == IF prior_tx = {} THEN "add" ELSE ReplaceDecision(prior, row)
        prior_txid == IF prior_tx = {} THEN NoTxid ELSE prior.txid
    IN  IF prior_tx # {} /\ AncestryLookupFails(db, prior, row)
        THEN { [ db |-> db, result |-> "DBError", event |-> NoEvent ] }
        ELSE IF decision = "reject"
        THEN { [ db |-> db, result |-> "ConflictingNonceInMempool", event |-> NoEvent ] }
        ELSE { IF u.db.raised # "none"
               THEN [ db |-> u.db, result |-> u.db.raised, event |-> NoEvent ]
               ELSE [ db |-> update_mempool_pager(InsertOrReplaceMempool(u.db, row), row.txid),
                      result |-> "Ok",
                      event |-> IF prior_tx # {} /\ observed
                                THEN [ txids |-> {prior_txid}, reason |-> decision ]
                                ELSE NoEvent ]
               : u \in update_bloom_counter(db, row.height, row.txid, prior_txid) }

\* What the chainstate answers when asked whether it admits a transaction on
\* top of a tip: Admit, or the reason of its rejection.
Admit == "Admit"
OracleReasons == {"RejectedByOracle", "RejectedByOracleToo"}
Verdicts == {Admit} \cup OracleReasons

\* The zeroed block hash the admitter of a freshly opened mempool points at.
ZeroTip == "zero"

\* MemPoolAdmitter::new
MemPoolAdmitter(tip) == [ cur_block |-> tip ]

\* MemPoolAdmitter::set_block
set_block(admitter, tip) == [ admitter EXCEPT !.cur_block = tip ]

\* MemPoolAdmitter::will_admit_tx; will_admit_mempool_tx is the chainstate's
\* answer for the transaction at hand, a function of the tip it is asked at.
will_admit_tx(admitter, will_admit_mempool_tx) ==
    will_admit_mempool_tx[admitter.cur_block]

\* The chainstates that admit the transaction at every tip, reject it at
\* every tip for one reason, or reject it at one tip only.
AdmitAll == [ t \in Tips \cup {ZeroTip} |-> Admit ]
RejectAll(reason) == [ t \in Tips \cup {ZeroTip} |-> reason ]
RejectAt(tip, reason) == [ AdmitAll EXCEPT ![tip] = reason ]

TxSubmitConflictsFirst(db, tip, tx, do_admission_checks, will_admit_mempool_tx, observed) ==
    LET known == get_stacks_block_height(tip)
        height == IF known # None THEN known ELSE 0
        admitter == set_block(MemPoolAdmitter(ZeroTip), tip)
        verdict == will_admit_tx(admitter, will_admit_mempool_tx)
        added == try_add_tx(db, MakeRow(tx, tip, height), observed)
    IN  IF "height" \in db.faults
        THEN { [ db |-> db, result |-> "Other", event |-> NoEvent ] }
        ELSE IF known = None /\ ConsensusHashOf(tip) # FIRST_BURNCHAIN_CONSENSUS_HASH
        THEN { [ db |-> db, result |-> "NoSuchChainTip", event |-> NoEvent ] }
        ELSE IF \E o \in added : o.result # "Ok"
        THEN added
        ELSE IF do_admission_checks /\ verdict # Admit
        THEN { [ db |-> db, result |-> verdict, event |-> NoEvent ] }
        ELSE added

TxSubmitUnknownAtZero(db, tip, tx, do_admission_checks, will_admit_mempool_tx, observed) ==
    LET known == get_stacks_block_height(tip)
        height == IF known # None THEN known ELSE 0
        admitter == set_block(MemPoolAdmitter(ZeroTip), tip)
        verdict == will_admit_tx(admitter, will_admit_mempool_tx)
    IN  IF "height" \in db.faults
        THEN { [ db |-> db, result |-> "Other", event |-> NoEvent ] }
        ELSE IF do_admission_checks /\ verdict # Admit
        THEN { [ db |-> db, result |-> verdict, event |-> NoEvent ] }
        ELSE try_add_tx(db, MakeRow(tx, tip, height), observed)

\* MemPoolDB::tx_submit. The block the admitter pointed at before set_block is
\* never read, so the admitter starts as open leaves it.
tx_submit(db, tip, tx, do_admission_checks, will_admit_mempool_tx, observed) ==
    LET known == get_stacks_block_height(tip)
        height == IF known # None THEN known ELSE 0
        admitter == set_block(MemPoolAdmitter(ZeroTip), tip)
        verdict == will_admit_tx(admitter, will_admit_mempool_tx)
    IN  IF "height" \in db.faults
        THEN { [ db |-> db, result |-> "Other", event |-> NoEvent ] }
        ELSE IF known = None /\ ConsensusHashOf(tip) # FIRST_BURNCHAIN_CONSENSUS_HASH
        THEN { [ db |-> db, result |-> "NoSuchChainTip", event |-> NoEvent ] }
        ELSE IF do_admission_checks /\ verdict # Admit
        THEN { [ db |-> db, result |-> verdict, event |-> NoEvent ] }
        ELSE try_add_tx(db, MakeRow(tx, tip, height), observed)

EndTransactionKeeping(db, o) ==
    IF o.result # "Ok"
    THEN o
    ELSE IF "commit" \in db.faults
    THEN [ db |-> o.db, result |-> "DBError", event |-> o.event ]
    ELSE o

\* What a write transaction leaves when its run has the outcome o: an error
\* drops the transaction, which rolls back; a failing commit rolls back too and
\* is returned as DBError; the observer has been told what o.event holds by
\* then.
EndTransaction(db, o) ==
    IF o.result # "Ok"
    THEN [ db |-> db, result |-> o.result, event |-> o.event ]
    ELSE IF "commit" \in db.faults
    THEN [ db |-> db, result |-> "DBError", event |-> o.event ]
    ELSE o

\* MemPoolDB::submit: tx_begin, tx_submit with admission checks and the
\* observer, commit
submit(db, tip, tx, will_admit_mempool_tx) ==
    { EndTransaction(db, o) :
        o \in tx_submit(db, tip, tx, TRUE, will_admit_mempool_tx, TRUE) }

\* MemPoolDB::submit_raw: tx_begin, tx_submit without admission checks and
\* without observer, commit
submit_raw(db, tip, tx, will_admit_mempool_tx) ==
    { EndTransaction(db, o) :
        o \in tx_submit(db, tip, tx, FALSE, will_admit_mempool_tx, FALSE) }

\* A garbage_collect that also deletes the rows at min_height.
GarbageCollectThrough(db, min_height) ==
    DeleteRows(db, { r.txid : r \in { q \in db.mempool : q.height <= min_height } })

\* MemPoolDB::garbage_collect, as clear_before_height runs it
garbage_collect(db, min_height) ==
    DeleteRows(db, { r.txid : r \in { q \in db.mempool : q.height < min_height } })

\* MemPoolDB::drop_txs
drop_txs(db, txids) == DeleteRows(db, txids)

\* ------------------------------------------------------------------------
\* Read path: lookup by txid
\* ------------------------------------------------------------------------

\* MemPoolDB::db_has_tx: SELECT 1 FROM mempool WHERE txid = ?1
db_has_tx(db, txid) == \E r \in db.mempool : r.txid = txid

\* MemPoolDB::has_tx
has_tx(db, txid) == db_has_tx(db, txid)

\* FromRow<MemPoolTxMetadata>: the columns of the row but the transaction.
MemPoolTxMetadata(row) ==
    [ txid |-> row.txid,
      tx_fee |-> row.tx_fee,
      len |-> row.length,
      tip |-> row.tip,
      block_height |-> row.height,
      origin_address |-> row.origin_address,
      origin_nonce |-> row.origin_nonce,
      sponsor_address |-> row.sponsor_address,
      sponsor_nonce |-> row.sponsor_nonce ]

\* FromRow<MemPoolTxInfo>: the transaction deserialized from column tx and the
\* metadata, or ParseError when the bytes do not parse or the transaction's
\* txid is not the row's.
MemPoolTxInfo(row) ==
    LET md == MemPoolTxMetadata(row)
        tx == consensus_deserialize(row.tx)
    IN  IF tx = NoTx
        THEN [ result |-> "ParseError" ]
        ELSE IF TxidOf(tx) # md.txid
             THEN [ result |-> "ParseError" ]
             ELSE [ result |-> "Some", tx |-> tx, metadata |-> md ]

\* MemPoolDB::get_tx: SELECT * FROM mempool WHERE txid = ?1
get_tx(db, txid) ==
    LET rows == { r \in db.mempool : r.txid = txid }
    IN  IF rows = {}
        THEN [ result |-> "None" ]
        ELSE MemPoolTxInfo(CHOOSE r \in rows : TRUE)

\* ------------------------------------------------------------------------
\* Read path: the miner's walk over the candidates
\* ------------------------------------------------------------------------

MEMPOOL_MAX_TRANSACTION_AGE == 256

\* page_size of iterate_candidates (1000 in the source)
PageSize == 1

SeqMin(a, b) == IF a < b THEN a ELSE b

\* The orderings of a finite set.
Orderings(S) ==
    { s \in [1..Cardinality(S) -> S] :
        \A i, j \in 1..Cardinality(S) : i # j => s[i] # s[j] }

\* The rows of `WHERE height > ?1 AND height <= ?2 AND tx_fee >= ?3`.
RowsInWindow(rows, start_height, end_height, min_fees) ==
    { r \in rows : r.height > start_height /\ r.height <= end_height /\ r.tx_fee >= min_fees }

OriginsOfEveryRow(rows, start_height, end_height, min_fees) ==
    LET selected == RowsInWindow(rows, start_height, end_height, min_fees)
    IN  { [ i \in 1..Cardinality(selected) |-> s[i].origin_address ] :
            s \in { t \in Orderings(selected) :
                      \A i \in 1..(Cardinality(selected) - 1) : t[i].tx_fee >= t[i + 1].tx_fee } }

\* The answers `SELECT DISTINCT origin_address ... ORDER BY tx_fee DESC` may
\* give before LIMIT and OFFSET apply: DISTINCT keeps one of the selected rows
\* of each origin address, and the addresses come by descending tx_fee of
\* the rows kept. Which row of an address is kept, and the order of addresses
\* whose kept rows have equal fees, depend on the order of the rows in the
\* table.
OriginsByDescendingFees(rows, start_height, end_height, min_fees) ==
    LET selected == RowsInWindow(rows, start_height, end_height, min_fees)
        origins == { r.origin_address : r \in selected }
    IN  { s \in Orderings(origins) :
            \E kept \in [origins -> selected] :
                /\ \A a \in origins : kept[a].origin_address = a
                /\ \A i \in 1..(Len(s) - 1) : kept[s[i]].tx_fee >= kept[s[i + 1]].tx_fee }

\* MemPoolDB::find_origin_addresses_by_descending_fees, given the answer of
\* its query before LIMIT and OFFSET apply
find_origin_addresses_by_descending_fees(answer, offset, count) ==
    SubSeq(answer, offset + 1, SeqMin(offset + count, Len(answer)))

\* No deadline: max_walk_time_ms so large that no clock read reaches it.
NoDeadline == None

\* `deadline <= get_epoch_time_ms()`, when in_time reads of the clock come
\* before the deadline and w.checks reads have been made.
DeadlineExceeded(p, w) == p.in_time # NoDeadline /\ w.checks >= p.in_time

CandidatesAtAnyNonce(p, origin_address) ==
    { r \in p.rows : /\ r.origin_address = origin_address
                     /\ r.height > p.min_height
                     /\ r.height <= p.max_height
                     /\ r.tx_fee >= p.min_tx_fee }

\* A query for one origin address that takes the rows stored under the blocks
\* of the fork of b3 only.
CandidatesOnForkOfB3(p, origin_address) ==
    { r \in p.rows : /\ r.origin_address = origin_address
                     /\ r.height > p.min_height
                     /\ r.height <= p.max_height
                     /\ r.origin_nonce = p.nonces[origin_address]
                     /\ r.tx_fee >= p.min_tx_fee
                     /\ r.tip \in AncestorsOf("b3") }

\* The query of iterate_candidates for one origin address: the rows at the
\* account's nonce, inside the height window, paying the minimum fee; the one
\* of least sponsor_nonce is taken (ORDER BY sponsor_nonce ASC LIMIT 1).
CandidatesOf(p, origin_address) ==
    { r \in p.rows : /\ r.origin_address = origin_address
                     /\ r.height > p.min_height
                     /\ r.height <= p.max_height
                     /\ r.origin_nonce = p.nonces[origin_address]
                     /\ r.tx_fee >= p.min_tx_fee }

\* The `for origin_address in origin_addresses.iter()` loop of
\* iterate_candidates from the i-th address of the page on.
RECURSIVE WalkPage(_, _, _, _)
WalkPage(p, page, i, w) ==
    IF i > Len(page)
    THEN w
    ELSE IF DeadlineExceeded(p, w)
    THEN w
    ELSE LET candidates == CandidatesOf(p, page[i])
             tx == CHOOSE r \in candidates :
                       \A q \in candidates : r.sponsor_nonce <= q.sponsor_nonce
             seen == [ w EXCEPT !.checks = @ + 1, !.total_origins = @ + 1 ]
             considered == [ seen EXCEPT !.total_considered = @ + 1,
                                         !.passed = Append(@, tx.txid) ]
         IN  IF candidates = {}
             THEN WalkPage(p, page, i + 1, seen)
             ELSE IF tx.txid \in p.stops
             THEN considered
             ELSE WalkPage(p, page, i + 1, considered)

WalkFirstPage(p, w) ==
    LET origin_addresses ==
            find_origin_addresses_by_descending_fees(p.answer, w.offset * PageSize, PageSize)
        queried == [ w EXCEPT !.checks = @ + 1 ]
    IN  IF DeadlineExceeded(p, w)
        THEN w
        ELSE IF Len(origin_addresses) = 0
        THEN queried
        ELSE [ WalkPage(p, origin_addresses, 1, queried) EXCEPT !.offset = @ + 1 ]

\* The `loop` of iterate_candidates.
RECURSIVE WalkLoop(_, _)
WalkLoop(p, w) ==
    IF DeadlineExceeded(p, w)
    THEN w
    ELSE LET origin_addresses ==
                 find_origin_addresses_by_descending_fees(p.answer, w.offset * PageSize, PageSize)
             queried == [ w EXCEPT !.checks = @ + 1 ]
         IN  IF Len(origin_addresses) = 0
             THEN queried
             ELSE WalkLoop(p, [ WalkPage(p, origin_addresses, 1, queried) EXCEPT !.offset = @ + 1 ])

\* MemPoolDB::iterate_candidates; the results are the outcomes the call may
\* have. nonces is the account nonce the chainstate view reports for each
\* address, in_time the number of clock reads that come before the deadline,
\* stops the transactions on which the callback returns false. The table does
\* not change during the pass, so every page is cut from one answer of the
\* origin query. passed is the transactions the callback was called with, in
\* order; total_considered is returned.
iterate_candidates(db, tip_height, settings, nonces, in_time, stops) ==
    LET min_height == tip_height - (MEMPOOL_MAX_TRANSACTION_AGE + 1)
        max_height == tip_height
    IN  { WalkLoop([ rows |-> db.mempool,
                     min_height |-> min_height,
                     max_height |-> max_height,
                     min_tx_fee |-> settings.min_tx_fee,
                     nonces |-> nonces,
                     answer |-> answer,
                     in_time |-> in_time,
                     stops |-> stops ],
                   [ offset |-> 0, checks |-> 0, total_considered |-> 0,
                     total_origins |-> 0, passed |-> << >> ])
          : answer \in OriginsByDescendingFees(db.mempool, min_height, max_height,
                                               settings.min_tx_fee) }

\* ------------------------------------------------------------------------
\* Read path: the digest of recent transactions
\* ------------------------------------------------------------------------

DEFAULT_MAX_TX_TAGS == TxTagCapacity

\* TxTag::from_seed_and_txid: SipHash-2-4 of seed || txid, as a number;
\* another function than the hash of the pager, injective in txid for a fixed
\* seed over the txids of the model.
from_seed_and_txid(s, txid) == ((5 + 2 * s) * txid + 7 * s) % 59

\* MemPoolDB::get_txtags: one tag per txid of get_bloom_txids, in the order the
\* query lists the txids, which it leaves to the store.
get_txtags(db, s) ==
    { [ i \in 1..Len(txid_list) |-> from_seed_and_txid(s, txid_list[i]) ] :
        txid_list \in Orderings(get_bloom_txids(db)) }

\* MemPoolDB::get_txid_bloom_filter: the items the Bloom counter holds.
get_txid_bloom_filter(db) == { t \in DOMAIN db.bloom_counter : db.bloom_counter[t] > 0 }

\* MemPoolDB::make_mempool_sync_data; the results are the digests the call
\* may return.
make_mempool_sync_data(db) ==
    LET num_tags == get_num_recent_txs(db.mempool)
    IN  IF num_tags < DEFAULT_MAX_TX_TAGS
        THEN { [ variant |-> "TxTags", seed |-> db.seed, tags |-> tags, filter |-> {} ] :
                 tags \in get_txtags(db, db.seed) }
        ELSE { [ variant |-> "BloomFilter", seed |-> db.seed, tags |-> << >>,
                 filter |-> get_txid_bloom_filter(db) ] }

\* The rows the query of find_next_missing_transactions selects before ORDER BY
\* and LIMIT: mempool rows joined with their pager entry, past the cursor,
\* above height.saturating_sub(BLOOM_COUNTER_DEPTH) and without a tombstone.
MissingQueryRows(db, height, last_txid) ==
    { [ txid |-> p[1].txid, tx |-> p[1].tx, hashed_txid |-> p[2].hashed_txid ] :
        p \in { p \in db.mempool \X db.randomized_txids :
                  /\ p[1].txid = p[2].txid
                  /\ p[2].hashed_txid > last_txid
                  /\ p[1].height > SaturatingSub(height, BLOOM_COUNTER_DEPTH)
                  /\ p[1].txid \notin db.removed_txids } }

\* ORDER BY randomized_txids.hashed_txid ASC
RECURSIVE AscendingHashedTxid(_)
AscendingHashedTxid(rows) ==
    IF rows = {}
    THEN << >>
    ELSE LET first == CHOOSE r \in rows : \A o \in rows : r.hashed_txid <= o.hashed_txid
         IN  << first >> \o AscendingHashedTxid(rows \ {first})

\* Whether the digest of the remote peer reports the txid: membership in its
\* Bloom filter, or the tag of the txid under the digest's seed among its tags.
SyncDataContains(data, txid) ==
    IF data.variant = "BloomFilter"
    THEN txid \in data.filter
    ELSE from_seed_and_txid(data.seed, txid) \in { data.tags[i] : i \in 1..Len(data.tags) }

\* The loop of find_next_missing_transactions over the rows of the query: a
\* row the digest reports is skipped, any other is deserialized and pushed,
\* and the loop ends once the result holds max_txs transactions.
RECURSIVE ScanMissing(_, _, _, _, _)
ScanMissing(rows, i, data, max_txs, ret) ==
    IF i > Len(rows)
    THEN ret
    ELSE IF SyncDataContains(data, rows[i].txid)
         THEN ScanMissing(rows, i + 1, data, max_txs, ret)
         ELSE LET pushed == Append(ret, consensus_deserialize(rows[i].tx))
              IN  IF Len(pushed) >= max_txs
                  THEN pushed
                  ELSE ScanMissing(rows, i + 1, data, max_txs, pushed)

\* MemPoolDB::find_next_missing_transactions: the transactions returned, in
\* the order they were pushed.
find_next_missing_transactions(db, data, height, last_txid, max_txs, max_run) ==
    LET ordered == AscendingHashedTxid(MissingQueryRows(db, height, last_txid))
        rows == SubSeq(ordered, 1, IF Len(ordered) < max_run THEN Len(ordered) ELSE max_run)
    IN  ScanMissing(rows, 1, data, max_txs, << >>)

\* BlockStreamData::new_tx_stream: the stream state of a request for the
\* transactions a peer with digest `tx_query` at chain height `height` misses.
new_tx_stream(tx_query, max_txs, height) ==
    [ tx_query |-> tx_query,
      height |-> height,
      last_txid |-> 0,
      max_txs |-> max_txs,
      num_txs |-> 0,
      tx_buf |-> << >>,
      tx_buf_ptr |-> 0 ]

\* The inner loop of stream_txs ("write out bufferred tx"): each round writes
\* the bytes of the buffer from tx_buf_ptr to min(len, tx_buf_ptr + count).
\* `fd` holds the bytes this call has written so far.
RECURSIVE WriteBufferedTx(_, _, _)
WriteBufferedTx(query, count, fd) ==
    IF Len(query.tx_buf) > 0 /\ query.tx_buf_ptr < Len(query.tx_buf)
    THEN LET start == query.tx_buf_ptr
             end == IF Len(query.tx_buf) < start + count
                    THEN Len(query.tx_buf) ELSE start + count
             nw == SaturatingSub(end, start)
         IN  IF nw = 0
             THEN [ query |-> query, fd |-> fd ]
             ELSE WriteBufferedTx([ query EXCEPT !.tx_buf_ptr = end ], count,
                                  fd \o SubSeq(query.tx_buf, start + 1, end))
    ELSE [ query |-> query, fd |-> fd ]

\* stream_txs from the head of its outer loop through "load next": the loop
\* tests, the buffered bytes written, the query of
\* find_next_missing_transactions and the transaction it returned put into
\* the buffer.  pc is "find_page" when the next statement is the query of
\* "find next page" for next_txid, and "returned" when the loop was left.
\* num_written is the number of bytes in `fd`.
StreamLoadNext(db, query, count, fd) ==
    IF ~(Len(fd) < count) \/ query.num_txs >= query.max_txs
    THEN [ pc |-> "returned", query |-> query, fd |-> fd ]
    ELSE LET written == WriteBufferedTx(query, count, fd)
             next_txs == find_next_missing_transactions(db, written.query.tx_query,
                             written.query.height, written.query.last_txid,
                             1, MAX_BLOOM_COUNTER_TXS)
         IN  IF Len(next_txs) = 0
             THEN [ pc |-> "returned", query |-> written.query, fd |-> written.fd ]
             ELSE LET next_tx == next_txs[Len(next_txs)]
                      loaded == [ written.query EXCEPT !.tx_buf_ptr = 0,
                                                       !.tx_buf = consensus_serialize(next_tx),
                                                       !.num_txs = @ + 1 ]
                  IN  [ pc |-> "find_page", query |-> loaded, fd |-> written.fd,
                        next_txid |-> TxidOf(next_tx) ]

\* "find next page" of stream_txs: the query of the pager for the transaction
\* just loaded; the cursor moves to its hashed_txid, and the loop is left when
\* the pager has no row for it.
StreamFindPage(db, query, next_txid) ==
    LET paged == { e \in db.randomized_txids : e.txid = next_txid }
    IN  IF paged = {}
        THEN [ pc |-> "returned", query |-> query ]
        ELSE [ pc |-> "loop",
               query |-> [ query EXCEPT !.last_txid = (CHOOSE e \in paged : TRUE).hashed_txid ] ]

\* The outer loop of stream_txs, run against one state of the tables.
RECURSIVE StreamLoop(_, _, _, _)
StreamLoop(db, query, count, fd) ==
    LET loaded == StreamLoadNext(db, query, count, fd)
    IN  IF loaded.pc = "returned"
        THEN [ query |-> loaded.query, fd |-> loaded.fd ]
        ELSE LET paged == StreamFindPage(db, loaded.query, loaded.next_txid)
             IN  IF paged.pc = "returned"
                 THEN [ query |-> paged.query, fd |-> loaded.fd ]
                 ELSE StreamLoop(db, paged.query, count, loaded.fd)

\* MemPoolDB::stream_txs: the stream state after the call, the bytes written
\* to the writer and the number returned.
stream_txs(db, query, count) ==
    LET done == StreamLoop(db, query, count, << >>)
    IN  [ query |-> done.query, fd |-> done.fd, num_written |-> Len(done.fd) ]

\* ------------------------------------------------------------------------
\* State
\* ------------------------------------------------------------------------

VARIABLES
    mempool,           \* the rows of table mempool
    removed_txids,     \* the txids of table removed_txids (tombstones)
    randomized_txids,  \* the rows of table randomized_txids (pager)
    bloom_counter,     \* how many times each txid is counted in the Bloom counter
    seed,              \* the seed of the node's BloomNodeHasher
    underflow,         \* the last operation asked the filter to remove an item it did not hold
    result,            \* what the last operation returned
    event,             \* the mempool_txs_dropped event of the last operation
    budget,            \* operations still to run
    run,               \* the submits of one (origin, nonce) on one fork that ran last
    walk,              \* the pass of iterate_candidates that ran last, if no write followed it
    reply,             \* what the digest operation that ran last returned, if no write followed it
    stream,            \* the transaction stream a caller holds (TxStreamData), and what was written to its writer
    conns              \* where each connection stands in the operation it runs, statement by statement

vars == << mempool, removed_txids, randomized_txids, bloom_counter, seed,
           underflow, result, event, budget, run, walk, reply, stream, conns >>

\* The write transaction tx_begin returns, as the operators above take it:
\* the tables, and the handle of the Bloom counter inside it.
DB ==
    [ mempool |-> mempool,
      removed_txids |-> removed_txids,
      randomized_txids |-> randomized_txids,
      bloom_counter |-> bloom_counter,
      seed |-> seed,
      underflow |-> FALSE,
      faults |-> {},
      bloom_state |-> "Some",
      raised |-> "none" ]

\* The store at the start of an operation that meets the faults f.
FaultyDB(f) == [ DB EXCEPT !.faults = f ]

\* commit: the tables take the values the write transaction left.
Commit(db) ==
    /\ mempool' = db.mempool
    /\ removed_txids' = db.removed_txids
    /\ randomized_txids' = db.randomized_txids
    /\ bloom_counter' = db.bloom_counter
    /\ underflow' = db.underflow
    /\ seed' = seed

NoKey == << "none", 0 >>

\* No submit ran last.
NoRun == [ key |-> NoKey, tips |-> {}, best |-> NoTxid, before |-> NoTxid ]

\* No pass of iterate_candidates ran since the last write.
NoWalk == [ ran |-> FALSE ]

\* No digest operation ran since the last write.
NoReply == [ op |-> "none" ]

\* No caller holds a transaction stream.
NoStream == [ open |-> FALSE ]

\* The connections to the one database file whose operations are followed
\* statement by statement: two submitters,
Connections == {"c1", "c2"}

\* the connection that serves a transaction stream to a peer,
Peer == "peer"

\* and the connection of the miner, which walks the mempool.
Miner == "miner"

\* A connection that runs no operation.
Idle == [ pc |-> "idle" ]

\* No connection runs an operation.
NoConns == [ c \in Connections \cup {Peer, Miner} |-> Idle ]

\* MemPoolDB::open on a fresh chainstate directory: empty tables, a Bloom
\* counter with a random seed.
EmptyStore ==
    /\ mempool = {}
    /\ removed_txids = {}
    /\ randomized_txids = {}
    /\ bloom_counter = [ t \in Txids |-> 0 ]
    /\ seed \in Seeds
    /\ underflow = FALSE
    /\ result = "none"
    /\ event = NoEvent
    /\ run = NoRun
    /\ walk = NoWalk
    /\ reply = NoReply
    /\ stream = NoStream
    /\ conns = NoConns

Init == EmptyStore /\ budget = MaxOps

\* MemPoolDB::submit
Submit(tx, tip, will_admit_mempool_tx, faults) ==
    /\ budget > 0
    /\ \E o \in submit(FaultyDB(faults), tip, tx, will_admit_mempool_tx) :
         /\ Commit(o.db)
         /\ result' = o.result
         /\ event' = o.event
    /\ budget' = budget - 1
    /\ walk' = NoWalk
    /\ reply' = NoReply
    /\ UNCHANGED << stream, conns >>

\* MemPoolDB::submit_raw
SubmitRaw(tx, tip, will_admit_mempool_tx, faults) ==
    /\ budget > 0
    /\ \E o \in submit_raw(FaultyDB(faults), tip, tx, will_admit_mempool_tx) :
         /\ Commit(o.db)
         /\ result' = o.result
         /\ event' = o.event
    /\ budget' = budget - 1
    /\ walk' = NoWalk
    /\ reply' = NoReply
    /\ UNCHANGED << stream, conns >>

\* tx_begin, garbage_collect with an observer, commit: the observer is told
\* the rows to delete before they are deleted.
GarbageCollect(min_height, faults) ==
    LET collected ==
            [ db |-> garbage_collect(FaultyDB(faults), min_height),
              result |-> "Ok",
              event |-> [ txids |-> { r.txid : r \in { q \in mempool : q.height < min_height } },
                          reason |-> "StaleGarbageCollect" ] ]
        o == EndTransaction(FaultyDB(faults), collected)
    IN  /\ budget > 0
        /\ Commit(o.db)
        /\ result' = o.result
        /\ event' = o.event
        /\ budget' = budget - 1
        /\ walk' = NoWalk
        /\ reply' = NoReply
        /\ UNCHANGED << stream, conns >>

\* MemPoolDB::drop_txs
DropTxs(txids, faults) ==
    LET dropped ==
            [ db |-> drop_txs(FaultyDB(faults), txids),
              result |-> "Ok",
              event |-> NoEvent ]
        o == EndTransaction(FaultyDB(faults), dropped)
    IN  /\ budget > 0
        /\ Commit(o.db)
        /\ result' = o.result
        /\ event' = o.event
        /\ budget' = budget - 1
        /\ walk' = NoWalk
        /\ reply' = NoReply
        /\ UNCHANGED << stream, conns >>

\* MemPoolDB::iterate_candidates with a callback that records what it is
\* called with: the tables are read only.
IterateCandidates(tip_height, settings, nonces, in_time, stops) ==
    /\ budget > 0
    /\ \E w \in iterate_candidates(DB, tip_height, settings, nonces, in_time, stops) :
          walk' = [ ran |-> TRUE,
                    passed |-> w.passed,
                    returned |-> w.total_considered,
                    origins |-> w.total_origins,
                    unlimited |-> (in_time = NoDeadline /\ stops = {}),
                    pages |-> w.offset ]
    /\ result' = "Ok"
    /\ event' = NoEvent
    /\ budget' = budget - 1
    /\ reply' = NoReply
    /\ UNCHANGED << stream, conns >>
    /\ UNCHANGED << mempool, removed_txids, randomized_txids, bloom_counter, seed,
                    underflow, run >>

\* The tables, the ghosts of the write path and of the walk and the stream a
\* caller holds, left alone by the digest operations.
ReadOnly ==
    /\ result' = "Ok"
    /\ event' = NoEvent
    /\ walk' = NoWalk
    /\ UNCHANGED << mempool, removed_txids, randomized_txids, bloom_counter, seed,
                    underflow, run, stream, conns >>

\* MemPoolDB::make_mempool_sync_data
MakeMempoolSyncData ==
    /\ budget > 0
    /\ \E data \in make_mempool_sync_data(DB) :
          reply' = [ op |-> "make_mempool_sync_data", data |-> data ]
    /\ budget' = budget - 1
    /\ ReadOnly

\* The digest of a peer that has no transaction: MemPoolSyncData::TxTags of
\* the zero seed and no tag.
EmptyTxTags == [ variant |-> "TxTags", seed |-> 0, tags |-> << >>, filter |-> {} ]

\* The all-zero txid, the cursor a query starts from.
ZeroTxid == 0

\* find_next_missing_transactions for a remote peer at chain height `height`
\* whose digest is `data`.
FindNextMissingTransactions(data, height, last_txid, max_txs, max_run) ==
    /\ budget > 0
    /\ reply' = [ op |-> "find_next_missing_transactions",
                  txs |-> find_next_missing_transactions(DB, data, height, last_txid,
                                                         max_txs, max_run) ]
    /\ budget' = budget - 1
    /\ ReadOnly

\* A caller opens a transaction stream: the stream state, the bytes its writer
\* has received (none), what the last stream_txs call returned (None: no call
\* yet) and how many operations were still to run when it was opened.
NewTxStream(tx_query, max_txs, height) ==
    /\ ~stream.open
    /\ stream' = [ open |-> TRUE,
                   query |-> new_tx_stream(tx_query, max_txs, height),
                   fd |-> << >>,
                   returned |-> None,
                   opened_at |-> budget ]
    /\ UNCHANGED << mempool, removed_txids, randomized_txids, bloom_counter, seed,
                    underflow, result, event, budget, run, walk, reply, conns >>

\* One call of stream_txs on the stream the caller holds; the caller calls
\* until a call returns 0.
StreamTxs(count) ==
    /\ stream.open
    /\ stream.returned # 0
    /\ LET o == stream_txs(DB, stream.query, count)
       IN  stream' = [ stream EXCEPT !.query = o.query,
                                     !.fd = @ \o o.fd,
                                     !.returned = o.num_written ]
    /\ UNCHANGED << mempool, removed_txids, randomized_txids, bloom_counter, seed,
                    underflow, result, event, budget, run, walk, reply, conns >>

MaxHeight == SetMax({ BlockHeight(b) : b \in KnownBlocks })

\* The chainstates the operations run against: one admits the transaction at
\* hand at every tip, the other rejects it at every tip.
Chainstates == { AdmitAll, RejectAll("RejectedByOracle") }

Next ==
    \/ \E tx \in Transactions, tip \in SubmitTips, chainstate \in Chainstates :
          Submit(tx, tip, chainstate, {}) /\ UNCHANGED run
    \/ \E tx \in Transactions, tip \in SubmitTips :
          SubmitRaw(tx, tip, RejectAll("RejectedByOracle"), {}) /\ UNCHANGED run
    \/ \E min_height \in 1..(MaxHeight + 1) :
          GarbageCollect(min_height, {}) /\ UNCHANGED run
    \/ \E txid \in Txids :
          DropTxs({txid}, {}) /\ UNCHANGED run

Spec == Init /\ [][Next]_vars

\* The operations with at most one fault each.
FaultSets == {{}} \cup { {f} : f \in Faults }

NextFaults ==
    \/ \E tx \in Transactions, tip \in SubmitTips, chainstate \in Chainstates, faults \in FaultSets :
          Submit(tx, tip, chainstate, faults) /\ UNCHANGED run
    \/ \E tx \in Transactions, tip \in SubmitTips, faults \in FaultSets :
          SubmitRaw(tx, tip, RejectAll("RejectedByOracle"), faults) /\ UNCHANGED run
    \/ \E min_height \in 1..(MaxHeight + 1), faults \in FaultSets :
          GarbageCollect(min_height, faults) /\ UNCHANGED run
    \/ \E txid \in Txids, faults \in FaultSets :
          DropTxs({txid}, faults) /\ UNCHANGED run

InitFaults == EmptyStore /\ budget = MaxFaultOps

SpecFaults == InitFaults /\ [][NextFaults]_vars

\* ------------------------------------------------------------------------
\* Vocabulary of the properties
\* ------------------------------------------------------------------------

\* The tips under which tx_submit reaches try_add_tx, and the height it
\* passes for each.
StorableTips == SubmitTips \ {UnknownTip}

HeightOfTip(tip) == IF tip \in KnownBlocks THEN BlockHeight(tip) ELSE 0

\* The rows try_add_tx may be called with.
CallRows == { MakeRow(tx, tip, HeightOfTip(tip)) : tx \in Transactions, tip \in StorableTips }

TxOfTxid(txid) == CHOOSE tx \in Transactions : TxidOf(tx) = txid

OriginMatches(row) ==
    { r \in mempool : r.origin_address = row.origin_address
                      /\ r.origin_nonce = row.origin_nonce }

SponsorMatches(row) ==
    { r \in mempool : r.sponsor_address = row.sponsor_address
                      /\ r.sponsor_nonce = row.sponsor_nonce }

\* The live row a new row conflicts with: the origin match, and only when
\* there is none the sponsor match.
ConflictingRows(row) ==
    IF OriginMatches(row) # {} THEN OriginMatches(row) ELSE SponsorMatches(row)

\* Two tips are on one fork when they are equal or one is an ancestor of the
\* other.
OnOneFork(a, b) == a = b \/ a \in AncestorsOf(b) \/ b \in AncestorsOf(a)

RowsUnderTip(rows, tip) == Cardinality({ r \in rows : r.tip = tip })

\* ------------------------------------------------------------------------
\* The walk over a mempool filled by submit_raw
\* ------------------------------------------------------------------------

MaxWalkOps == 4

\* The tips the miner walks at: inside the tree, at its top, and so far above
\* it that only the rows of the top are young enough.
WalkTipHeights == { MaxHeight - 1, MaxHeight, MaxHeight + MEMPOOL_MAX_TRANSACTION_AGE }

WalkSettings == { [ min_tx_fee |-> f ] : f \in Fees }

\* The chainstate views: the nonce of each account.
AccountNonces == [ Addresses -> Nonces ]

\* The walks run: without deadline and with a callback that never stops; with
\* a deadline reached after two clock reads; with a callback that stops on
\* every transaction.
WalkLimits ==
    { [ in_time |-> NoDeadline, stops |-> {} ],
      [ in_time |-> 2, stops |-> {} ],
      [ in_time |-> NoDeadline, stops |-> Txids ] }

\* The tips the walked mempool is filled at: the blocks of both forks.
WalkSubmitTips == {"b1", "b3", "c2"}

NextWalk ==
    \/ \E tx \in Transactions, tip \in WalkSubmitTips :
          SubmitRaw(tx, tip, AdmitAll, {}) /\ UNCHANGED run
    \/ \E tip_height \in WalkTipHeights, settings \in WalkSettings, nonces \in AccountNonces,
            limits \in WalkLimits :
          IterateCandidates(tip_height, settings, nonces, limits.in_time, limits.stops)

InitWalk == EmptyStore /\ budget = MaxWalkOps

SpecWalk == InitWalk /\ [][NextWalk]_vars

\* ------------------------------------------------------------------------
\* The digest and streaming operations over a mempool that submit_raw fills
\* and garbage_collect empties
\* ------------------------------------------------------------------------

MaxSyncOps == 4

NextSync ==
    \/ \E tx \in Transactions, tip \in StorableTips :
          SubmitRaw(tx, tip, AdmitAll, {}) /\ UNCHANGED run
    \/ \E min_height \in 1..(MaxHeight + 1) :
          GarbageCollect(min_height, {}) /\ UNCHANGED run
    \/ MakeMempoolSyncData
    \/ \E data \in make_mempool_sync_data(DB) \cup {EmptyTxTags},
          height \in {0, MaxHeight}, max_txs \in 1..2 :
          FindNextMissingTransactions(data, height, ZeroTxid, max_txs, MAX_BLOOM_COUNTER_TXS)

InitSync == EmptyStore /\ budget = MaxSyncOps

SpecSync == InitSync /\ [][NextSync]_vars

\* The streaming operation over a mempool that submit_raw fills and
\* garbage_collect empties: a caller opens one stream, for a peer whose digest
\* is empty or is this node's own, and calls stream_txs on it until a call
\* returns 0, while the writes go on.
MaxStreamWrites == 2

StreamMaxTxs == {2, 4}

StreamCounts == {1, 3}

NextStream ==
    \/ \E tx \in Transactions, tip \in StorableTips :
          SubmitRaw(tx, tip, AdmitAll, {}) /\ UNCHANGED run
    \/ \E min_height \in 1..(MaxHeight + 1) :
          GarbageCollect(min_height, {}) /\ UNCHANGED run
    \/ \E tx_query \in make_mempool_sync_data(DB) \cup {EmptyTxTags},
          max_txs \in StreamMaxTxs, height \in {0, MaxHeight} :
          NewTxStream(tx_query, max_txs, height)
    \/ \E count \in StreamCounts : StreamTxs(count)

InitStream == EmptyStore /\ budget = MaxStreamWrites

SpecStream == InitStream /\ [][NextStream]_vars

\* ------------------------------------------------------------------------
\* Two connections that submit at once
\* ------------------------------------------------------------------------

\* The writes that ran before the two connections submit.
MaxRaceWrites == 1

\* The write lock of the database file, which BEGIN IMMEDIATE takes and commit
\* or rollback gives back: a connection inside a write transaction holds it.
WriteLockHeld == \E c \in Connections : conns[c].pc = "in_tx"

\* The tables and the ghosts of the operations that ran whole, left alone by
\* a connection that takes a step without writing.
NoStatementRuns ==
    UNCHANGED << mempool, removed_txids, randomized_txids, bloom_counter, seed,
                 underflow, result, event, budget, run, walk, reply, stream >>

\* A connection enters MemPoolDB::submit_raw with a transaction that
\* deserializes: tx_begin is the next statement.
CallSubmitRaw(c, tx, tip) ==
    /\ conns[c].pc = "idle"
    /\ conns' = [ conns EXCEPT ![c] = [ pc |-> "tx_begin", tx |-> tx, tip |-> tip ] ]
    /\ NoStatementRuns

\* A tx_begin that opens a deferred transaction, which takes no lock until
\* its first write.
TxBeginDeferred(c) ==
    /\ conns[c].pc = "tx_begin"
    /\ conns' = [ conns EXCEPT ![c].pc = "in_tx" ]
    /\ NoStatementRuns

\* MemPoolDB::tx_begin of a connection: tx_begin_immediate returns once no
\* other connection holds the write lock; until then the busy handler waits.
TxBegin(c) ==
    /\ conns[c].pc = "tx_begin"
    /\ ~WriteLockHeld
    /\ conns' = [ conns EXCEPT ![c].pc = "in_tx" ]
    /\ NoStatementRuns

\* The rest of submit_raw on the connection that holds the write lock:
\* tx_submit, commit, return.  `turn` counts the connections that returned
\* before and this one.
TxSubmitAndCommit(c) ==
    /\ conns[c].pc = "in_tx"
    /\ \E o \in submit_raw(DB, conns[c].tip, conns[c].tx, AdmitAll) :
         /\ Commit(o.db)
         /\ result' = o.result
         /\ event' = o.event
         /\ conns' = [ conns EXCEPT ![c] =
                         [ pc |-> "returned", tx |-> conns[c].tx, tip |-> conns[c].tip,
                           result |-> o.result,
                           turn |-> 1 + Cardinality({ d \in Connections :
                                                        conns[d].pc = "returned" }) ] ]
    /\ walk' = NoWalk
    /\ reply' = NoReply
    /\ UNCHANGED << budget, run, stream >>

NextRace ==
    \/ \E tx \in Transactions, tip \in StorableTips :
          conns = NoConns /\ SubmitRaw(tx, tip, AdmitAll, {}) /\ UNCHANGED run
    \/ \E c \in Connections, tx \in Transactions, tip \in StorableTips :
          CallSubmitRaw(c, tx, tip)
    \/ \E c \in Connections : TxBegin(c)
    \/ \E c \in Connections : TxSubmitAndCommit(c)

InitRace == EmptyStore /\ budget = MaxRaceWrites

SpecRace == InitRace /\ [][NextRace]_vars

\* ------------------------------------------------------------------------
\* A stream served while other connections write
\* ------------------------------------------------------------------------

\* stream_txs takes &self and opens no transaction: each of its queries reads
\* what is committed when it runs, so a write of another connection can land
\* between "load next" and "find next page".

\* The peer's connection enters stream_txs.
CallStreamTxs(count) ==
    /\ stream.open
    /\ stream.returned # 0
    /\ conns[Peer].pc = "idle"
    /\ conns' = [ conns EXCEPT ![Peer] = [ pc |-> "loop", count |-> count, fd |-> << >> ] ]
    /\ NoStatementRuns

\* stream_txs returns: the writer has received the bytes of the call.
StreamTxsReturns(query, fd) ==
    /\ stream' = [ stream EXCEPT !.query = query,
                                 !.fd = @ \o fd,
                                 !.returned = Len(fd) ]
    /\ conns' = [ conns EXCEPT ![Peer] = Idle ]

\* stream_txs from the head of its loop through "load next".
StreamTxsLoadNext ==
    /\ conns[Peer].pc = "loop"
    /\ LET loaded == StreamLoadNext(DB, stream.query, conns[Peer].count, conns[Peer].fd)
       IN  IF loaded.pc = "returned"
           THEN StreamTxsReturns(loaded.query, loaded.fd)
           ELSE /\ stream' = [ stream EXCEPT !.query = loaded.query ]
                /\ conns' = [ conns EXCEPT ![Peer] =
                                [ pc |-> "find_page", count |-> conns[Peer].count,
                                  fd |-> loaded.fd, next_txid |-> loaded.next_txid ] ]
    /\ UNCHANGED << mempool, removed_txids, randomized_txids, bloom_counter, seed,
                    underflow, result, event, budget, run, walk, reply >>

\* "find next page" of stream_txs, and the end of the loop's round.
StreamTxsFindPage ==
    /\ conns[Peer].pc = "find_page"
    /\ LET paged == StreamFindPage(DB, stream.query, conns[Peer].next_txid)
       IN  IF paged.pc = "returned"
           THEN StreamTxsReturns(paged.query, conns[Peer].fd)
           ELSE /\ stream' = [ stream EXCEPT !.query = paged.query ]
                /\ conns' = [ conns EXCEPT ![Peer] =
                                [ pc |-> "loop", count |-> conns[Peer].count,
                                  fd |-> conns[Peer].fd ] ]
    /\ UNCHANGED << mempool, removed_txids, randomized_txids, bloom_counter, seed,
                    underflow, result, event, budget, run, walk, reply >>

NextServe ==
    \/ \E tx \in Transactions, tip \in StorableTips :
          SubmitRaw(tx, tip, AdmitAll, {}) /\ UNCHANGED run
    \/ \E min_height \in 1..(MaxHeight + 1) :
          GarbageCollect(min_height, {}) /\ UNCHANGED run
    \/ \E tx_query \in make_mempool_sync_data(DB) \cup {EmptyTxTags},
          max_txs \in StreamMaxTxs, height \in {0, MaxHeight} :
          NewTxStream(tx_query, max_txs, height)
    \/ \E count \in StreamCounts : CallStreamTxs(count)
    \/ StreamTxsLoadNext
    \/ StreamTxsFindPage

SpecServe == InitStream /\ [][NextServe]_vars

\* ------------------------------------------------------------------------
\* A walk made while other connections write
\* ------------------------------------------------------------------------

\* iterate_candidates takes &self and opens no transaction: each page query
\* reads what is committed when it runs, so writes of other connections can
\* land between two page queries.

\* The writes that run before and during the pass.
MaxPassWrites == 3

\* What iterate_candidates computes from its arguments before its loop, for a
\* pass without deadline whose callback never stops, and the rows its queries
\* read.
WalkOf(rows, tip_height, settings, nonces) ==
    [ rows |-> rows,
      min_height |-> tip_height - (MEMPOOL_MAX_TRANSACTION_AGE + 1),
      max_height |-> tip_height,
      min_tx_fee |-> settings.min_tx_fee,
      nonces |-> nonces,
      in_time |-> NoDeadline,
      stops |-> {} ]

\* The origin addresses for which the per-origin query of the pass finds a
\* row.
OriginsWithCandidate(p) == { a \in Addresses : CandidatesOf(p, a) # {} }

\* The miner's connection enters iterate_candidates.  `eligible` holds the
\* origin addresses that had a candidate each time the pass looked so far,
\* `at` the number of writes still to run when it last looked, `gapless`
\* whether at most one write ran between any two looks, `answer` what the
\* origin query last answered before LIMIT and OFFSET.
CallIterateCandidates(tip_height, settings, nonces) ==
    /\ conns[Miner].pc = "idle"
    /\ conns' = [ conns EXCEPT ![Miner] =
                    [ pc |-> "loop",
                      tip_height |-> tip_height, settings |-> settings, nonces |-> nonces,
                      w |-> [ offset |-> 0, checks |-> 0, total_considered |-> 0,
                              total_origins |-> 0, passed |-> << >> ],
                      eligible |-> OriginsWithCandidate(
                                       WalkOf(mempool, tip_height, settings, nonces)),
                      at |-> budget,
                      gapless |-> TRUE,
                      answer |-> << >>,
                      asked |-> FALSE ] ]
    /\ NoStatementRuns

\* One round of the `loop` of iterate_candidates: the page query at the
\* current offset, and for a page that is not empty the per-origin queries
\* and callbacks of its addresses and offset += 1; an empty page ends the
\* pass.  Over a table that no write has changed the origin query answers as
\* it did before.
WalkOnePage ==
    /\ conns[Miner].pc = "loop"
    /\ LET c == conns[Miner]
           p == WalkOf(mempool, c.tip_height, c.settings, c.nonces)
       IN  \E answer \in OriginsByDescendingFees(mempool, p.min_height, p.max_height,
                                                 p.min_tx_fee) :
               LET looked == [ c EXCEPT !.eligible = @ \cap OriginsWithCandidate(p),
                                        !.gapless = @ /\ c.at - budget <= 1,
                                        !.at = budget,
                                        !.answer = answer,
                                        !.asked = TRUE ]
                   origin_addresses ==
                       find_origin_addresses_by_descending_fees(answer,
                           c.w.offset * PageSize, PageSize)
                   queried == [ c.w EXCEPT !.checks = @ + 1 ]
               IN  /\ (c.asked /\ c.at = budget) => answer = c.answer
                   /\ conns' = [ conns EXCEPT ![Miner] =
                          IF Len(origin_addresses) = 0
                          THEN [ looked EXCEPT !.pc = "returned", !.w = queried ]
                          ELSE [ looked EXCEPT !.w =
                                   [ WalkPage(p, origin_addresses, 1, queried)
                                       EXCEPT !.offset = @ + 1 ] ] ]
    /\ NoStatementRuns

\* The tips the mempool is filled at while it is walked: two blocks of one
\* fork.
PassSubmitTips == {"b1", "b3"}

\* The walks made while others write: at the top of the tree, without a
\* minimum fee, for every chainstate view.
NextPass ==
    \/ \E tx \in Transactions, tip \in PassSubmitTips :
          SubmitRaw(tx, tip, AdmitAll, {}) /\ UNCHANGED run
    \/ \E min_height \in 1..(MaxHeight + 1) :
          GarbageCollect(min_height, {}) /\ UNCHANGED run
    \/ \E nonces \in AccountNonces :
          CallIterateCandidates(MaxHeight, [ min_tx_fee |-> 1 ], nonces)
    \/ WalkOnePage

InitPass == EmptyStore /\ budget = MaxPassWrites

SpecPass == InitPass /\ [][NextPass]_vars

\* ------------------------------------------------------------------------
\* Runs of submits of one (origin, nonce) on one fork
\* ------------------------------------------------------------------------

KeyOf(tx) == << tx.origin, tx.nonce >>

FeeOfTxid(txid) == TxOfTxid(txid).fee

RowsOfKey(rows, key) == { r \in rows : << r.origin_address, r.origin_nonce >> = key }

LiveTxidOfKey(rows, key) ==
    IF RowsOfKey(rows, key) = {}
    THEN NoTxid
    ELSE (CHOOSE r \in RowsOfKey(rows, key) : TRUE).txid

\* The run after a submit of tx at tip: the submit extends the run when it
\* carries the run's (origin, nonce) and its tip is on one fork with the
\* run's tips, and starts a new run otherwise.  best is the accepted submit
\* of the highest tx_fee, before the txid that was live for the key when the
\* run started.
TrackRun(tx, tip) ==
    LET continues == run.key = KeyOf(tx) /\ \A t \in run.tips : OnOneFork(t, tip)
        base == IF continues
                THEN run
                ELSE [ key |-> KeyOf(tx), tips |-> {}, best |-> NoTxid,
                       before |-> LiveTxidOfKey(mempool, KeyOf(tx)) ]
        higher == \/ base.best = NoTxid
                  \/ tx.fee > FeeOfTxid(base.best)
    IN  run' = IF tip = UnknownTip
               THEN NoRun
               ELSE [ base EXCEPT
                        !.tips = @ \cup {tip},
                        !.best = IF result' = "Ok" /\ higher THEN TxidOf(tx) ELSE @ ]

NextRun ==
    \/ \E tx \in Transactions, tip \in SubmitTips, chainstate \in Chainstates :
          Submit(tx, tip, chainstate, {}) /\ TrackRun(tx, tip)
    \/ \E tx \in Transactions, tip \in SubmitTips :
          SubmitRaw(tx, tip, RejectAll("RejectedByOracle"), {}) /\ TrackRun(tx, tip)
    \/ \E min_height \in 1..(MaxHeight + 1) :
          GarbageCollect(min_height, {}) /\ run' = NoRun
    \/ \E txid \in Txids :
          DropTxs({txid}, {}) /\ run' = NoRun

InitRun == EmptyStore /\ budget = MaxRunOps

SpecRun == InitRun /\ [][NextRun]_vars

\* ------------------------------------------------------------------------
\* Properties
\* ------------------------------------------------------------------------

\* C1: in every reachable state of the store no two live rows share a txid,
\* an (origin_address, origin_nonce) or a (sponsor_address, sponsor_nonce).
C1_UniqueRows ==
    \A r1 \in mempool : \A r2 \in mempool :
        r1 # r2 =>
            /\ r1.txid # r2.txid
            /\ << r1.origin_address, r1.origin_nonce >> # << r2.origin_address, r2.origin_nonce >>
            /\ << r1.sponsor_address, r1.sponsor_nonce >> # << r2.sponsor_address, r2.sponsor_nonce >>

\* C1 witness: two rows are live right after a submit displaced a row that
\* conflicted with it.
C1_Witness ==
    /\ Cardinality(mempool) >= 2
    /\ event.reason \in {"ReplaceByFee", "ReplaceAcrossFork"}

\* C2: from every reachable state with an operation to run, try_add_tx of a transaction that conflicts
\* with a live row of strictly lower tx_fee succeeds, whatever the tips and
\* the lengths; afterwards the prior txid is not live and the new txid is live
\* with the new fee.
C2_ReplaceByFee ==
    budget > 0 => \A row \in CallRows : \A prior \in ConflictingRows(row) :
        row.tx_fee > prior.tx_fee =>
            \A o \in try_add_tx(DB, row, TRUE) :
                /\ o.result = "Ok"
                /\ prior.txid \notin LiveTxids(o.db.mempool)
                /\ \E r \in o.db.mempool : r.txid = row.txid /\ r.tx_fee = row.tx_fee

\* C2 witness: a submit has just replaced by fee a row of a different tip
\* whose fee per byte was at least the new row's.
C2_Witness ==
    /\ result = "Ok"
    /\ event.reason = "ReplaceByFee"
    /\ \E r \in mempool : \E t \in event.txids :
          /\ t \notin LiveTxids(mempool)
          /\ r.tx_fee > TxOfTxid(t).fee
          /\ r.tx_fee * TxLength(TxOfTxid(t)) <= TxOfTxid(t).fee * r.length
          /\ << r.origin_address, r.origin_nonce >> = << TxOfTxid(t).origin, TxOfTxid(t).nonce >>

\* C3 as stated: when the prior row's tip is on one fork with the new tip and
\* the new fee is at most the prior's, try_add_tx returns
\* ConflictingNonceInMempool, the prior row stays as it is, the new txid is
\* not live, and the Bloom filter, the tombstones and the pager are unchanged.
C3_AsStated ==
    budget > 0 => \A row \in CallRows : \A prior \in ConflictingRows(row) :
        (OnOneFork(prior.tip, row.tip) /\ row.tx_fee <= prior.tx_fee) =>
            \A o \in try_add_tx(DB, row, TRUE) :
                /\ o.result = "ConflictingNonceInMempool"
                /\ prior \in o.db.mempool
                /\ row.txid \notin LiveTxids(o.db.mempool)
                /\ o.db.bloom_counter = bloom_counter
                /\ o.db.removed_txids = removed_txids
                /\ o.db.randomized_txids = randomized_txids

\* C3 amended: as C3, except that the new txid is live afterwards exactly when
\* the call re-submitted the prior row's own transaction; the table is as it
\* was before the call.
C3_SameForkReject ==
    budget > 0 => \A row \in CallRows : \A prior \in ConflictingRows(row) :
        (OnOneFork(prior.tip, row.tip) /\ row.tx_fee <= prior.tx_fee) =>
            \A o \in try_add_tx(DB, row, TRUE) :
                /\ o.result = "ConflictingNonceInMempool"
                /\ o.db.mempool = mempool
                /\ prior \in o.db.mempool
                /\ (row.txid \in LiveTxids(o.db.mempool) <=> row.txid = prior.txid)
                /\ o.db.bloom_counter = bloom_counter
                /\ o.db.removed_txids = removed_txids
                /\ o.db.randomized_txids = randomized_txids

\* C3 witness: the last call was rejected with ConflictingNonceInMempool, with
\* rows live, while the Bloom counter, the tombstones and the pager hold
\* entries that the rejection had to leave alone.
C3_Witness ==
    /\ result = "ConflictingNonceInMempool"
    /\ event = NoEvent
    /\ mempool # {}
    /\ removed_txids # {}
    /\ randomized_txids # {}
    /\ \E t \in Txids : bloom_counter[t] > 0

\* C4 as stated: when the prior row's tip and the new tip are on different
\* forks, try_add_tx accepts for any fee; the number of rows under the prior's
\* tip goes down by one and the number under the new tip goes up by one.
C4_AsStated ==
    budget > 0 => \A row \in CallRows : \A prior \in ConflictingRows(row) :
        ~OnOneFork(prior.tip, row.tip) =>
            \A o \in try_add_tx(DB, row, TRUE) :
                /\ o.result = "Ok"
                /\ RowsUnderTip(o.db.mempool, prior.tip) = RowsUnderTip(mempool, prior.tip) - 1
                /\ RowsUnderTip(o.db.mempool, row.tip) = RowsUnderTip(mempool, row.tip) + 1

\* C5 as stated: after every run of submits of one (origin, nonce) whose tips
\* lie on one fork, exactly one of the submitted transactions is live for that
\* (origin, nonce), and it is the accepted one of the highest tx_fee.
C5_AsStated ==
    run.key # NoKey =>
        \E r \in mempool : RowsOfKey(mempool, run.key) = {r} /\ r.txid = run.best

\* C5 amended: after every such run, when a submit of the run was accepted the
\* one live row of that (origin, nonce) is the accepted submit of the highest
\* tx_fee; when none was accepted the rows of that (origin, nonce) are the
\* ones that were live before the run.
C5_HighestAcceptedIsLive ==
    run.key # NoKey =>
        IF run.best # NoTxid
        THEN \E r \in mempool :
                /\ RowsOfKey(mempool, run.key) = {r}
                /\ r.txid = run.best
                /\ r.tx_fee = FeeOfTxid(run.best)
        ELSE LiveTxids(RowsOfKey(mempool, run.key)) = {run.before} \ {NoTxid}

\* C5 witness: a run that started with no live row for its (origin, nonce),
\* went through two tips, had a submit of the highest fee accepted and its last
\* submit rejected for its fee.
C5_Witness ==
    /\ run.key # NoKey
    /\ run.before = NoTxid
    /\ Cardinality(run.tips) >= 2
    /\ run.best # NoTxid
    /\ FeeOfTxid(run.best) = MaxFee
    /\ result = "ConflictingNonceInMempool"

\* The txids the Bloom counter holds.
BloomTxids == { t \in Txids : bloom_counter[t] > 0 }

RECURSIVE SumOver(_, _)
SumOver(f, S) ==
    IF S = {}
    THEN 0
    ELSE LET x == CHOOSE y \in S : TRUE
         IN  f[x] + SumOver(f, S \ {x})

\* How many txids the Bloom counter holds, each as often as it was inserted.
BloomTotal == SumOver(bloom_counter, Txids)

\* The live, non-tombstoned rows whose height lies in the recent window
\* (max_height - D, max_height].
RecentNonTombstoned ==
    IF mempool = {}
    THEN {}
    ELSE LET max_height == SetMax({ r.height : r \in mempool })
         IN  { r \in mempool :
                 /\ r.height > max_height - BLOOM_COUNTER_DEPTH
                 /\ r.height <= max_height
                 /\ r.txid \notin removed_txids }

\* C6: in every committed state every live txid is in exactly one of the
\* Bloom counter and the tombstone set.
C6_BloomXorTombstone ==
    \A r \in mempool : (r.txid \in BloomTxids) # (r.txid \in removed_txids)

\* C7: in every committed state the Bloom counter holds each txid of a live,
\* non-tombstoned row of the recent window once, and no other txid.
C7_BloomEqualsRecent ==
    \A t \in Txids :
        bloom_counter[t] = IF t \in LiveTxids(RecentNonTombstoned) THEN 1 ELSE 0

\* C8: in every committed state at most MAX_BLOOM_COUNTER_TXS live,
\* non-tombstoned rows have their height in the recent window.
C8_RecentBounded == Cardinality(RecentNonTombstoned) <= MAX_BLOOM_COUNTER_TXS

\* C9: in every committed state the Bloom counter holds at most
\* MAX_BLOOM_COUNTER_TXS txids in total.
C9_BloomBounded == BloomTotal <= MAX_BLOOM_COUNTER_TXS

C11_AsStated ==
    /\ budget > 0 =>
         \A row \in CallRows :
            ((\A r \in mempool : r.height # row.height) /\ row.height > BLOOM_COUNTER_DEPTH) =>
                \A o \in try_add_tx(DB, row, TRUE) :
                    o.result = "Ok" =>
                        \A r \in o.db.mempool :
                            r.height = row.height - BLOOM_COUNTER_DEPTH =>
                                /\ o.db.bloom_counter[r.txid] = 0
                                /\ r.txid \in o.db.removed_txids
    /\ mempool # {} =>
         LET h == SetMax({ r.height : r \in mempool })
         IN  \A r \in mempool :
                r.height <= h - BLOOM_COUNTER_DEPTH => r.txid \notin BloomTxids

\* C12 as stated: the observer is told of dropped transactions only by an
\* operation whose write transaction has committed: after an operation that
\* delivered a dropped-transaction event naming txids, the operation has
\* returned Ok.
C12_AsStated == event.txids # {} => result = "Ok"

\* C13 as stated: a submit at a tip on a different fork than the tip of the
\* live row it conflicts with succeeds, whatever the two fees, and the observer
\* is told that the old row was dropped with reason ReplaceAcrossFork.
C13_AsStated ==
    budget > 0 =>
        \A tx \in Transactions, tip \in StorableTips :
            \A prior \in ConflictingRows(MakeRow(tx, tip, HeightOfTip(tip))) :
                ~OnOneFork(prior.tip, tip) =>
                    \A o \in submit(DB, tip, tx, AdmitAll) :
                        /\ o.result = "Ok"
                        /\ o.event = [ txids |-> {prior.txid}, reason |-> "ReplaceAcrossFork" ]

\* C13 amended: such a submit succeeds whatever the two fees, and the observer
\* is told that the old row was dropped, with reason ReplaceAcrossFork when the
\* new fee is at most the old row's and with reason ReplaceByFee when it is
\* higher.
C13_AcrossForkReported ==
    budget > 0 =>
        \A tx \in Transactions, tip \in StorableTips :
            \A prior \in ConflictingRows(MakeRow(tx, tip, HeightOfTip(tip))) :
                ~OnOneFork(prior.tip, tip) =>
                    \A o \in submit(DB, tip, tx, AdmitAll) :
                        /\ o.result = "Ok"
                        /\ o.event = [ txids |-> {prior.txid},
                                       reason |-> IF tx.fee > prior.tx_fee
                                                  THEN "ReplaceByFee"
                                                  ELSE "ReplaceAcrossFork" ]
                        /\ \E r \in o.db.mempool : r.txid = TxidOf(tx) /\ r.tip = tip

\* C13 witness: a submit has just displaced across forks a row of a higher
\* fee than its own, under a block that is no ancestor of the new tip.
C13_Witness ==
    /\ result = "Ok"
    /\ event.reason = "ReplaceAcrossFork"
    /\ \E t \in event.txids : \E r \in mempool :
          /\ KeyOf(TxOfTxid(t)) = << r.origin_address, r.origin_nonce >>
          /\ r.tx_fee < FeeOfTxid(t)
          /\ r.tip \in KnownBlocks

\* The tables of a store are the tables of the current state.
TablesUnchanged(db) ==
    /\ db.mempool = mempool
    /\ db.bloom_counter = bloom_counter
    /\ db.removed_txids = removed_txids
    /\ db.randomized_txids = randomized_txids

\* C14: from every reachable state, every submit and submit_raw that returns
\* an error (admission rejection, unknown tip, nonce conflict, a failing height
\* or ancestry lookup, a failing commit) leaves the main index, the Bloom
\* counter, the tombstone set and the pager exactly as they were.
C14_ErrorsChangeNothing ==
    budget > 0 =>
        \A tx \in Transactions, tip \in SubmitTips, faults \in FaultSets :
            /\ \A chainstate \in Chainstates :
                  \A o \in submit(FaultyDB(faults), tip, tx, chainstate) :
                      o.result # "Ok" => TablesUnchanged(o.db)
            /\ \A o \in submit_raw(FaultyDB(faults), tip, tx, AdmitAll) :
                  o.result # "Ok" => TablesUnchanged(o.db)

\* C14 witness: a submit has just failed on the lookup of its tip's height
\* while the main index, the Bloom counter, the tombstone set and the pager all
\* held entries.
C14_Witness ==
    /\ result = "Other"
    /\ mempool # {}
    /\ BloomTxids # {}
    /\ removed_txids # {}
    /\ randomized_txids # {}

\* The chainstates C15 asks: the oracle admits everywhere, rejects everywhere,
\* or rejects at one tip only, for either reason.
OraclesAsked ==
    {AdmitAll}
        \cup { RejectAll(reason) : reason \in OracleReasons }
        \cup { RejectAt(t, reason) : t \in Tips \cup {ZeroTip}, reason \in OracleReasons }

\* What a call leaves and returns, without the event.
StoredAndReturned(outcomes) == { [ db |-> o.db, result |-> o.result ] : o \in outcomes }

\* C15: from every reachable state, for every transaction, every tip whose
\* height resolves and every oracle: when the oracle rejects the transaction
\* at the submitted tip, submit returns the oracle's reason unchanged and
\* stores nothing, whether or not a live row conflicts with the transaction;
\* when the oracle admits it at the submitted tip, submit stores and returns
\* what submit_raw does; submit_raw does the same whatever the oracle
\* answers, and stores a transaction no live row conflicts with even when the
\* oracle rejects it.
C15_OracleBeforeConflicts ==
    budget > 0 =>
        \A tx \in Transactions, tip \in StorableTips, oracle \in OraclesAsked :
            LET row == MakeRow(tx, tip, HeightOfTip(tip))
            IN  /\ submit_raw(DB, tip, tx, oracle) = submit_raw(DB, tip, tx, AdmitAll)
                /\ oracle[tip] # Admit =>
                      \A o \in submit(DB, tip, tx, oracle) :
                          /\ o.result = oracle[tip]
                          /\ TablesUnchanged(o.db)
                          /\ o.event = NoEvent
                /\ oracle[tip] = Admit =>
                      StoredAndReturned(submit(DB, tip, tx, oracle))
                          = StoredAndReturned(submit_raw(DB, tip, tx, oracle))
                /\ (oracle[tip] # Admit /\ OriginMatches(row) = {} /\ SponsorMatches(row) = {}) =>
                      \A o \in submit_raw(DB, tip, tx, oracle) :
                          /\ o.result = "Ok"
                          /\ \E r \in o.db.mempool : r.txid = row.txid /\ r.tip = tip

\* C15 witness: the oracle has just rejected a submit while the mempool held
\* rows, so that among the submits asked next some conflict with a live row
\* and some do not.
C15_Witness ==
    /\ result \in OracleReasons
    /\ budget > 0
    /\ \E tx \in Transactions, tip \in StorableTips :
          ConflictingRows(MakeRow(tx, tip, HeightOfTip(tip))) # {}
    /\ \E tx \in Transactions, tip \in StorableTips :
          LET row == MakeRow(tx, tip, HeightOfTip(tip))
          IN  OriginMatches(row) = {} /\ SponsorMatches(row) = {}

\* C16: from every reachable state, for every transaction and every tip, a
\* submit or submit_raw the oracle admits: under a tip the chainstate knows,
\* stores the transaction at the height the chainstate gives that tip; under a
\* tip the chainstate does not know whose consensus hash is the first
\* burnchain consensus hash, stores it at height 0; under any other tip the
\* chainstate does not know, returns NoSuchChainTip and stores nothing. A
\* transaction is stored unless it is rejected for a conflicting nonce.
C16_HeightOfTip ==
    budget > 0 =>
        \A tx \in Transactions, tip \in Tips :
            LET height == IF tip \in KnownBlocks THEN BlockHeight(tip) ELSE 0
                row == MakeRow(tx, tip, height)
                sentinel == ConsensusHashOf(tip) = FIRST_BURNCHAIN_CONSENSUS_HASH
            IN  \A o \in submit(DB, tip, tx, AdmitAll) \cup submit_raw(DB, tip, tx, AdmitAll) :
                    IF tip \in KnownBlocks \/ sentinel
                    THEN /\ o.result \in {"Ok", "ConflictingNonceInMempool"}
                         /\ ConflictingRows(row) = {} => o.result = "Ok"
                         /\ o.result = "Ok" =>
                               \E r \in o.db.mempool :
                                   r.txid = row.txid /\ r.tip = tip /\ r.height = height
                    ELSE /\ o.result = "NoSuchChainTip"
                         /\ TablesUnchanged(o.db)

\* C16 witness: a submit under a tip the chainstate does not know has just
\* returned NoSuchChainTip while the mempool holds a row stored at height 0
\* under the genesis tip, and further submits are asked.
C16_Witness ==
    /\ result = "NoSuchChainTip"
    /\ budget > 0
    /\ \E r \in mempool : r.tip = GenesisTip /\ r.height = 0

\* The deadlines and callbacks the walks are asked with: no deadline, or a
\* deadline reached after up to three clock reads; a callback that never
\* stops, that always stops, or that stops on one live transaction.
DeadlinesAsked == {NoDeadline} \cup 0..3

StopsAsked == { {}, Txids } \cup { {t} : t \in LiveTxids(mempool) }

OriginOfTxid(txid) == TxOfTxid(txid).origin

\* C17: from every reachable state, in every pass of iterate_candidates (any
\* tip height, minimum fee, account nonces, deadline and callback) no two
\* invocations of the callback are for transactions of one origin address.
C17_OncePerOrigin ==
    budget > 0 =>
        \A tip_height \in WalkTipHeights, settings \in WalkSettings, nonces \in AccountNonces,
           in_time \in DeadlinesAsked, stops \in StopsAsked :
            \A w \in iterate_candidates(DB, tip_height, settings, nonces, in_time, stops) :
                \A i, j \in 1..Len(w.passed) :
                    i # j => OriginOfTxid(w.passed[i]) # OriginOfTxid(w.passed[j])

\* C17 witness: a pass has just called the callback for two origin addresses
\* found on two pages, one of which has rows of different fees.
C17_Witness ==
    /\ walk.ran
    /\ Len(walk.passed) = 2
    /\ walk.pages >= 2
    /\ \E r, q \in mempool : r.origin_address = q.origin_address /\ r.tx_fee # q.tx_fee

\* C18: from every reachable state, in every pass of iterate_candidates every
\* transaction passed to the callback is a row of the mempool whose
\* origin_nonce is the nonce the chainstate view reports for its origin
\* address, whose tx_fee is at least settings.min_tx_fee and whose height h
\* satisfies tip_height - 257 < h <= tip_height.
C18_OnlyEligiblePassed ==
    budget > 0 =>
        \A tip_height \in WalkTipHeights, settings \in WalkSettings, nonces \in AccountNonces,
           in_time \in DeadlinesAsked, stops \in StopsAsked :
            \A w \in iterate_candidates(DB, tip_height, settings, nonces, in_time, stops) :
                \A i \in 1..Len(w.passed) :
                    \E r \in mempool :
                        /\ r.txid = w.passed[i]
                        /\ r.origin_nonce = nonces[r.origin_address]
                        /\ r.tx_fee >= settings.min_tx_fee
                        /\ tip_height - 257 < r.height
                        /\ r.height <= tip_height

\* C18 witness: a pass over a mempool of three rows has just asked for the
\* rows of two origin addresses and passed one transaction only.
C18_Witness ==
    /\ walk.ran
    /\ walk.origins = 2
    /\ Len(walk.passed) = 1
    /\ Cardinality(mempool) = 3

\* C19: from every reachable state, in every pass of iterate_candidates the
\* tx_fee of each transaction passed to the callback is less than or equal to
\* the tx_fee of the transaction passed before it.
C19_AsStated ==
    budget > 0 =>
        \A tip_height \in WalkTipHeights, settings \in WalkSettings, nonces \in AccountNonces,
           in_time \in DeadlinesAsked, stops \in StopsAsked :
            \A w \in iterate_candidates(DB, tip_height, settings, nonces, in_time, stops) :
                \A i \in 1..(Len(w.passed) - 1) :
                    FeeOfTxid(w.passed[i + 1]) <= FeeOfTxid(w.passed[i])

\* The origin addresses with a row a pass may hand out: at the account's
\* nonce, paying the minimum fee, at a height h with
\* tip_height - 257 < h <= tip_height.
OriginsToPass(tip_height, settings, nonces) ==
    { a \in Addresses :
        \E r \in mempool : /\ r.origin_address = a
                            /\ r.origin_nonce = nonces[a]
                            /\ r.tx_fee >= settings.min_tx_fee
                            /\ tip_height - 257 < r.height
                            /\ r.height <= tip_height }

\* C20: from every reachable state, every pass of iterate_candidates without
\* deadline and with a callback that never stops ends, has called the
\* callback exactly once for each origin address that has an eligible row at
\* its account nonce and for no other origin address, and returns the number
\* of calls of the callback.
C20_ExactlyTheEligibleOrigins ==
    budget > 0 =>
        \A tip_height \in WalkTipHeights, settings \in WalkSettings, nonces \in AccountNonces :
            \A w \in iterate_candidates(DB, tip_height, settings, nonces, NoDeadline, {}) :
                /\ { OriginOfTxid(w.passed[i]) : i \in 1..Len(w.passed) }
                      = OriginsToPass(tip_height, settings, nonces)
                /\ Len(w.passed) = Cardinality(OriginsToPass(tip_height, settings, nonces))
                /\ w.total_considered = Len(w.passed)

\* C20 witness: a pass without deadline whose callback never stops has just
\* run over a mempool of three rows, passed the transactions of two origin
\* addresses found on two pages and returned 2.
C20_Witness ==
    /\ walk.ran
    /\ walk.unlimited
    /\ Len(walk.passed) = 2
    /\ walk.returned = 2
    /\ walk.pages >= 2
    /\ Cardinality(mempool) = 3

\* C21: in every reachable state make_mempool_sync_data returns the TxTags
\* variant exactly when fewer than MAX_TX_TAGS live, non-tombstoned rows have
\* their height in the recent window, and the BloomFilter variant otherwise.
C21_AsStated ==
    budget > 0 =>
        \A data \in make_mempool_sync_data(DB) :
            /\ data.variant \in {"TxTags", "BloomFilter"}
            /\ data.variant = "TxTags" <=> Cardinality(RecentNonTombstoned) < DEFAULT_MAX_TX_TAGS

\* C22: in every reachable state, for every seed, the tag list of get_txtags
\* (the list a TxTags digest carries) holds one tag SipHash24(seed, txid) for
\* each live, non-tombstoned row whose height lies in the recent window
\* (max_height - D, max_height], and nothing else.
C22_AsStated ==
    budget > 0 =>
        \A s \in Seeds :
            \A tags \in get_txtags(DB, s) :
                /\ Len(tags) = Cardinality(RecentNonTombstoned)
                /\ { tags[i] : i \in 1..Len(tags) }
                      = { from_seed_and_txid(s, r.txid) : r \in RecentNonTombstoned }

\* The digests a remote peer is asked about: tags (under its own seed 0, or
\* under this node's seed) or a Bloom filter of no txid, of one live txid, of
\* the recent non-tombstoned txids, or of every live txid.
DigestsAsked ==
    LET sets == {{}, { r.txid : r \in RecentNonTombstoned }, LiveTxids(mempool)}
                  \cup { {t} : t \in LiveTxids(mempool) }
        TagsOf(s, S) == LET order == CHOOSE q \in Orderings(S) : TRUE
                        IN  [ i \in 1..Len(order) |-> from_seed_and_txid(s, order[i]) ]
    IN  { [ variant |-> "TxTags", seed |-> s, tags |-> TagsOf(s, S), filter |-> {} ] :
            s \in {0, seed}, S \in sets }
        \cup { [ variant |-> "BloomFilter", seed |-> seed, tags |-> << >>, filter |-> S ] :
                 S \in sets }

\* Whether a digest reports a txid as present.
ReportedPresent(data, txid) ==
    \/ data.variant = "BloomFilter" /\ txid \in data.filter
    \/ /\ data.variant = "TxTags"
       /\ \E i \in 1..Len(data.tags) : data.tags[i] = from_seed_and_txid(data.seed, txid)

\* The hashed txid the pager holds for a txid.
PagerHashOf(txid) ==
    (CHOOSE e \in randomized_txids : e.txid = txid).hashed_txid

CursorsAsked == {ZeroTxid} \cup { e.hashed_txid : e \in randomized_txids }

\* The live, non-tombstoned rows past the cursor and above requester_height - D.
EligibleToSend(requester_height, cursor) ==
    { r \in mempool :
        /\ r.txid \notin removed_txids
        /\ r.height > requester_height - BLOOM_COUNTER_DEPTH
        /\ \E e \in randomized_txids : e.txid = r.txid /\ e.hashed_txid > cursor }

\* C23: in every reachable state, find_next_missing_transactions returns at
\* most max_txs transactions, in ascending hashed_txid order; each is a live,
\* non-tombstoned row past the cursor, above requester_height - D, that the
\* digest does not report present; no more transactions are returned than the
\* max_scan rows examined; and with a digest reporting every current recent
\* txid nothing is returned.
C23_AsStated ==
    budget > 0 =>
        \A data \in DigestsAsked, requester_height \in {0, MaxHeight, MaxHeight + 1},
           cursor \in CursorsAsked, max_txs \in 0..2, max_scan \in {1, 3} :
            LET txs == find_next_missing_transactions(DB, data, requester_height, cursor,
                                                      max_txs, max_scan)
                eligible == EligibleToSend(requester_height, cursor)
            IN  /\ Len(txs) <= max_txs
                /\ \A i, j \in 1..Len(txs) :
                      i < j => PagerHashOf(TxidOf(txs[i])) < PagerHashOf(TxidOf(txs[j]))
                /\ \A i \in 1..Len(txs) :
                      /\ \E r \in eligible : r.txid = TxidOf(txs[i])
                      /\ ~ReportedPresent(data, TxidOf(txs[i]))
                /\ Len(txs) <= max_scan
                /\ (\A r \in RecentNonTombstoned : ReportedPresent(data, r.txid))
                      => txs = << >>

\* The transactions a reader decodes from the bytes of a writer, one after
\* the other; NoTx last when the bytes end inside a transaction.
RECURSIVE DecodedTxs(_)
DecodedTxs(bytes) ==
    IF Len(bytes) = 0
    THEN << >>
    ELSE LET n == 1 + (bytes[1] % 2)
         IN  IF Len(bytes) < n
             THEN << NoTx >>
             ELSE << consensus_deserialize(SubSeq(bytes, 1, n)) >>
                    \o DecodedTxs(SubSeq(bytes, n + 1, Len(bytes)))

\* The caller has called stream_txs until it returned 0, and no write ran
\* since the stream was opened.
StreamDrainedOverUnchangedMempool ==
    /\ stream.open
    /\ stream.returned = 0
    /\ stream.opened_at = budget

\* C24: in every reachable state where stream_txs was called on one stream
\* state until it returned 0, over an unchanged mempool, with a digest that
\* reports no live txid and max_to_serve at least the number of recent
\* non-tombstoned rows, the bytes written decode to exactly the recent
\* non-tombstoned transactions, each once.
C24_AsStated ==
    ( /\ StreamDrainedOverUnchangedMempool
      /\ \A r \in mempool : ~ReportedPresent(stream.query.tx_query, r.txid)
      /\ stream.query.max_txs >= Cardinality(RecentNonTombstoned) )
    => LET txs == DecodedTxs(stream.fd)
       IN  /\ \A i \in 1..Len(txs) : txs[i] \in Transactions
           /\ { TxidOf(txs[i]) : i \in 1..Len(txs) } = { r.txid : r \in RecentNonTombstoned }
           /\ Len(txs) = Cardinality(RecentNonTombstoned)

\* C25: in every reachable state, garbage_collect(min_height) leaves in the
\* main index exactly the rows of height >= min_height, each unchanged, and in
\* the tombstone set and the pager exactly the entries of those rows.
C25_GarbageCollectFrame ==
    budget > 0 =>
        \A min_height \in 0..(MaxHeight + 1) :
            LET after == garbage_collect(DB, min_height)
                kept == { r \in mempool : r.height >= min_height }
            IN  /\ after.mempool = kept
                /\ after.removed_txids = { t \in removed_txids : \E r \in kept : r.txid = t }
                /\ after.randomized_txids
                      = { e \in randomized_txids : \E r \in kept : r.txid = e.txid }

\* C25 witness: garbage_collect has just deleted a row and left a tombstoned
\* row, with its tombstone and pager entry, and an untombstoned row.
C25_Witness ==
    /\ event.reason = "StaleGarbageCollect"
    /\ event.txids # {}
    /\ \E r \in mempool :
          /\ r.txid \in removed_txids
          /\ \E e \in randomized_txids : e.txid = r.txid
    /\ \E r \in mempool : r.txid \notin removed_txids

\* What a lookup is to return for a transaction accepted under a tip.
SubmittedTxInfo(tx, tip) ==
    [ result |-> "Some",
      tx |-> tx,
      metadata |-> [ txid |-> TxidOf(tx),
                     tx_fee |-> tx.fee,
                     len |-> Len(consensus_serialize(tx)),
                     tip |-> tip,
                     block_height |-> HeightOfTip(tip),
                     origin_address |-> tx.origin,
                     origin_nonce |-> tx.nonce,
                     sponsor_address |-> IF tx.sponsor = NoSponsor THEN tx.origin
                                                                  ELSE tx.sponsor,
                     sponsor_nonce |-> IF tx.sponsor = NoSponsor THEN tx.nonce
                                                                ELSE tx.sponsor_nonce ] ]

\* C26: in every reachable state, get_tx of a live txid returns a transaction
\* whose recomputed txid is the lookup key, with the fee, length, origin,
\* sponsor, tip and height of a submission of that transaction; has_tx is true
\* exactly for the live txids; and right after an accepted submit get_tx of
\* its txid returns the transaction and the metadata submitted, and no other
\* txid has become live.
C26_LookupRoundTrip ==
    /\ \A r \in mempool :
          LET info == get_tx(DB, r.txid)
          IN  /\ info.result = "Some"
              /\ info.tx \in Transactions
              /\ TxidOf(info.tx) = r.txid
              /\ info = SubmittedTxInfo(info.tx, r.tip)
    /\ \A t \in Txids :
          /\ has_tx(DB, t) <=> t \in LiveTxids(mempool)
          /\ ~has_tx(DB, t) => get_tx(DB, t).result = "None"
    /\ budget > 0 =>
          \A tx \in Transactions, tip \in StorableTips :
              \A o \in submit_raw(DB, tip, tx, AdmitAll) :
                  o.result = "Ok" =>
                      /\ get_tx(o.db, TxidOf(tx)) = SubmittedTxInfo(tx, tip)
                      /\ \A t \in Txids :
                            has_tx(o.db, t) => (t = TxidOf(tx) \/ has_tx(DB, t))

\* C26 witness: a submit has just been accepted, the mempool holds a
\* sponsored and an unsponsored row, and further submits are to come.
C26_Witness ==
    /\ result = "Ok"
    /\ budget > 0
    /\ \E r \in mempool : r.sponsor_address # r.origin_address
    /\ \E r \in mempool : r.sponsor_address = r.origin_address

\* C27: from every reachable state, in every pass of iterate_candidates the
\* callback is not invoked again once it has answered stop: only the last
\* transaction passed can be one the callback stops on.
C27_AsStated ==
    budget > 0 =>
        \A tip_height \in WalkTipHeights, settings \in WalkSettings, nonces \in AccountNonces,
           in_time \in DeadlinesAsked, stops \in StopsAsked :
            \A w \in iterate_candidates(DB, tip_height, settings, nonces, in_time, stops) :
                \A i \in 1..(Len(w.passed) - 1) : w.passed[i] \notin stops

\* C28: from every reachable state, a pass of iterate_candidates without
\* deadline and with a callback that never stops, run for a block `walked` at
\* its height, passes every row stored under a tip that is not on one fork
\* with `walked` when the row's height is in the window, its fee is at least
\* the minimum fee and its nonce is the account's.
C28_ForksNotFiltered ==
    budget > 0 =>
        \A walked \in KnownBlocks, settings \in WalkSettings, nonces \in AccountNonces :
            \A w \in iterate_candidates(DB, BlockHeight(walked), settings, nonces,
                                        NoDeadline, {}) :
                \A r \in mempool :
                    ( /\ ~OnOneFork(r.tip, walked)
                      /\ BlockHeight(walked) - 257 < r.height
                      /\ r.height <= BlockHeight(walked)
                      /\ r.tx_fee >= settings.min_tx_fee
                      /\ r.origin_nonce = nonces[r.origin_address] )
                    => \E i \in 1..Len(w.passed) : w.passed[i] = r.txid

\* C28 witness: one pass without deadline or stop has just passed a
\* transaction stored under c2 and a transaction stored under b3, two blocks
\* on different forks.
C28_Witness ==
    /\ walk.ran
    /\ walk.unlimited
    /\ \E r \in mempool :
          r.tip = "c2" /\ \E i \in 1..Len(walk.passed) : walk.passed[i] = r.txid
    /\ \E r \in mempool :
          r.tip = "b3" /\ \E i \in 1..Len(walk.passed) : walk.passed[i] = r.txid

\* The rows, tombstoned or not, whose height lies in the recent window
\* (max_height - D, max_height].
RecentRows ==
    IF mempool = {}
    THEN {}
    ELSE LET max_height == SetMax({ r.height : r \in mempool })
         IN  { r \in mempool : r.height > max_height - BLOOM_COUNTER_DEPTH }

\* The txids a submit at a height has evicted for saturation: those it put in
\* the tombstone set, but the rows at height - D that the advance of the
\* window prunes.
EvictedBy(after, height) ==
    { t \in after.removed_txids \ removed_txids :
        \A r \in mempool : r.txid = t => r.height # height - BLOOM_COUNTER_DEPTH }

\* C29: from every reachable state, an accepted submit that finds at least
\* MAX_BLOOM_COUNTER_TXS recent rows evicts exactly one row, a non-tombstoned
\* row of the recent window of least tx_fee among them, which leaves the Bloom
\* counter, enters the tombstone set and stays in the main index; an accepted
\* submit that finds fewer recent rows evicts none.
C29_AsStated ==
    budget > 0 =>
        \A tx \in Transactions, tip \in StorableTips :
            \A o \in submit_raw(DB, tip, tx, AdmitAll) :
                o.result = "Ok" =>
                    LET evicted == EvictedBy(o.db, HeightOfTip(tip))
                    IN  IF Cardinality(RecentRows) >= MAX_BLOOM_COUNTER_TXS
                        THEN \E e \in RecentNonTombstoned :
                                /\ evicted = {e.txid}
                                /\ \A r \in RecentNonTombstoned : e.tx_fee <= r.tx_fee
                                /\ o.db.bloom_counter[e.txid] = 0
                                /\ e \in o.db.mempool
                        ELSE evicted = {}

\* C30: in every reachable state, the operation that ran last has asked the
\* Bloom counter to remove only txids it counted: no removal found the
\* counter of its txid at zero.
C30_AsStated == underflow = FALSE

\* What the write operations may leave the store in from the current state:
\* submit_raw of any transaction under any tip whose height resolves,
\* garbage_collect at any height, drop_txs of any txid.
StoresAfterOneWrite ==
    { o.db : o \in UNION { submit_raw(DB, tip, tx, AdmitAll) :
                              tx \in Transactions, tip \in StorableTips } }
    \cup { garbage_collect(DB, min_height) : min_height \in 0..(MaxHeight + 1) }
    \cup { drop_txs(DB, {t}) : t \in Txids }

\* C31: in every reachable state no txid of the tombstone set is in the Bloom
\* counter, and after any one write operation every tombstoned txid whose row
\* is still live is still in the tombstone set and still out of the Bloom
\* counter.
C31_AsStated ==
    /\ \A t \in removed_txids : bloom_counter[t] = 0
    /\ budget > 0 =>
          \A after \in StoresAfterOneWrite :
              \A r \in mempool :
                  (r.txid \in removed_txids /\ r \in after.mempool) =>
                      /\ r.txid \in after.removed_txids
                      /\ after.bloom_counter[r.txid] = 0

\* The stores garbage_collect or drop_txs may leave from the current state
\* when they delete the row `r`.
StoresAfterDeleting(r) ==
    { garbage_collect(DB, min_height) : min_height \in (r.height + 1)..(MaxHeight + 1) }
    \cup { drop_txs(DB, {r.txid}) }

\* C32: from every reachable state, when garbage_collect or drop_txs deletes
\* a row whose txid the Bloom counter holds and a later accepted submit of
\* another transaction stores a row at a height h with h - D at or above the
\* deleted row's height (the window has advanced past it), the Bloom counter
\* no longer holds the txid of the deleted row.
C32_AsStated ==
    budget > 0 =>
        \A r \in mempool :
            bloom_counter[r.txid] > 0 =>
                \A deleted \in StoresAfterDeleting(r) :
                    \A tx \in Transactions, tip \in StorableTips :
                        ( /\ TxidOf(tx) # r.txid
                          /\ HeightOfTip(tip) - BLOOM_COUNTER_DEPTH >= r.height )
                        => \A o \in submit_raw(deleted, tip, tx, AdmitAll) :
                              o.result = "Ok" => o.db.bloom_counter[r.txid] = 0

\* The bytes of the buffered transaction a stream state has not written yet.
PendingBytes(query) == SubSeq(query.tx_buf, query.tx_buf_ptr + 1, Len(query.tx_buf))

\* C33: in every reachable state with an open stream, a stream_txs call with
\* byte budget count writes at most count bytes and returns the number of
\* bytes written; the bytes written start with the unwritten bytes of the
\* buffered transaction, and when these are more than the call wrote the rest
\* is what the stream state keeps as unwritten.
C33_AsStated ==
    stream.open =>
        \A count \in 0..3 :
            LET o == stream_txs(DB, stream.query, count)
                pending == PendingBytes(stream.query)
                k == IF Len(pending) < Len(o.fd) THEN Len(pending) ELSE Len(o.fd)
            IN  /\ Len(o.fd) <= count
                /\ o.num_written = Len(o.fd)
                /\ SubSeq(o.fd, 1, k) = SubSeq(pending, 1, k)
                /\ Len(o.fd) < Len(pending) =>
                      PendingBytes(o.query) = SubSeq(pending, Len(o.fd) + 1, Len(pending))

\* C34: in every reachable state with an open stream, the writer has received
\* at most max_txs transactions; once a stream_txs call has returned 0 the
\* writer has received, in full, as many transactions as num_txs counts; and
\* when, over an unchanged mempool, at least max_txs rows were eligible for a
\* peer whose digest reports none, it has received exactly max_txs.
C34_AsStated ==
    stream.open =>
        LET delivered == DecodedTxs(stream.fd)
        IN  /\ Len(delivered) <= stream.query.max_txs
            /\ stream.returned = 0 =>
                  /\ \A i \in 1..Len(delivered) : delivered[i] \in Transactions
                  /\ Len(delivered) = stream.query.num_txs
            /\ ( /\ StreamDrainedOverUnchangedMempool
                 /\ \A r \in mempool : ~ReportedPresent(stream.query.tx_query, r.txid)
                 /\ Cardinality(EligibleToSend(stream.query.height, ZeroTxid))
                       >= stream.query.max_txs
                 /\ \A r \in mempool : r.height > 0 )
               => Len(delivered) = stream.query.max_txs

\* C35: in every reachable state, for every two tips (the tip of a live row
\* and the tip of a submit among them), are_blocks_in_same_fork is true
\* exactly when they are equal or one is an ancestor of the other, and gives
\* the same answer with its arguments swapped; b3 and c2, which share only
\* the ancestor b1, are on different forks.
C35_SameForkIsAncestry ==
    /\ \A a \in { r.tip : r \in mempool } \cup Tips, b \in Tips :
          /\ are_blocks_in_same_fork(a, b) <=> OnOneFork(a, b)
          /\ are_blocks_in_same_fork(a, b) <=> are_blocks_in_same_fork(b, a)
    /\ "b1" \in AncestorsOf("b3") \cap AncestorsOf("c2")
    /\ ~are_blocks_in_same_fork("b3", "c2")
    /\ ~are_blocks_in_same_fork("c2", "b3")

\* C35 witness: a submit has just replaced a row of another fork: the mempool
\* holds a row under c2 or b3 and the dropped row is reported as replaced
\* across forks.
C35_Witness ==
    /\ event.reason = "ReplaceAcrossFork"
    /\ result = "Ok"
    /\ \E r \in mempool : r.tip \in {"b3", "c2"}

\* The two connections have both returned from submits of one (origin, nonce).
RaceIsOver ==
    /\ \A c \in Connections : conns[c].pc = "returned"
    /\ KeyOf(conns["c1"].tx) = KeyOf(conns["c2"].tx)

InWriteTransaction == { c \in Connections : conns[c].pc = "in_tx" }

\* C36 as stated: when two submits of one (address, nonce) race from two
\* connections, no two write transactions are open at once, and exactly one of
\* the two submits returns Ok while the other returns
\* ConflictingNonceInMempool, in whichever order they ran.
C36_AsStated ==
    /\ Cardinality(InWriteTransaction) <= 1
    /\ RaceIsOver =>
          \E won, lost \in Connections :
              /\ won # lost
              /\ conns[won].result = "Ok"
              /\ conns[lost].result = "ConflictingNonceInMempool"

\* C36 amended: no two write transactions are open at once; when the submit
\* that ran first was accepted, the one that ran second is accepted too exactly
\* when it pays a strictly higher fee or is submitted under a tip on another
\* fork, and is rejected with ConflictingNonceInMempool otherwise; at most one
\* row of that (origin, nonce) is live afterwards, and it is the second
\* submit's row when both were accepted.
C36_RaceIsSerialized ==
    /\ Cardinality(InWriteTransaction) <= 1
    /\ RaceIsOver =>
          \A first, second \in Connections :
              (conns[first].turn = 1 /\ conns[second].turn = 2) =>
                  /\ conns[first].result = "Ok" =>
                        IF \/ conns[second].tx.fee > conns[first].tx.fee
                           \/ ~OnOneFork(conns[first].tip, conns[second].tip)
                        THEN /\ conns[second].result = "Ok"
                             /\ { r.txid : r \in RowsOfKey(mempool, KeyOf(conns[second].tx)) }
                                    = { TxidOf(conns[second].tx) }
                        ELSE conns[second].result = "ConflictingNonceInMempool"
                  /\ Cardinality(RowsOfKey(mempool, KeyOf(conns[first].tx))) <= 1

\* C36 witness: both connections have returned from submits of one
\* (origin, nonce) on one fork, the second one waited for the write lock while
\* the first held it, and both were accepted.
C36_Witness ==
    /\ RaceIsOver
    /\ conns["c1"].result = "Ok"
    /\ conns["c2"].result = "Ok"
    /\ OnOneFork(conns["c1"].tip, conns["c2"].tip)
    /\ conns["c1"].tx # conns["c2"].tx

\* The write transaction a caller goes on with after a call returned: the
\* faults of the next call are its own.
SameTransaction(db) == [ db EXCEPT !.faults = {}, !.raised = "none" ]

\* C37 as stated: whatever prune_bloom_counter, update_bloom_counter and
\* update_mempool_pager return, an error included, the handle of the Bloom
\* counter is back in the write transaction when they return, and no later
\* try_add_tx on the same write transaction panics in take_bloom_state.
C37_AsStated ==
    budget > 0 =>
        \A faults \in FaultSets, row \in CallRows :
            /\ \A target_height \in 0..MaxHeight :
                  prune_bloom_counter(FaultyDB(faults), target_height).bloom_state = "Some"
            /\ \A prior_txid \in LiveTxids(mempool) \cup {NoTxid} :
                  \A u \in update_bloom_counter(FaultyDB(faults), row.height, row.txid, prior_txid) :
                      u.db.bloom_state = "Some"
            /\ update_mempool_pager(FaultyDB(faults), row.txid).bloom_state = "Some"
            /\ \A o \in try_add_tx(FaultyDB(faults), row, TRUE) :
                  \A later \in CallRows :
                      \A p \in try_add_tx(SameTransaction(o.db), later, TRUE) :
                          p.result # "panic"

\* The live rows a submit of `row` is decided against: the one of its origin
\* (address, nonce), and when there is none the one of its sponsor
\* (address, nonce).
DecidedAgainst(row) ==
    LET same_origin == { r \in mempool : /\ r.origin_address = row.origin_address
                                          /\ r.origin_nonce = row.origin_nonce }
        same_sponsor == { r \in mempool : /\ r.sponsor_address = row.sponsor_address
                                           /\ r.sponsor_nonce = row.sponsor_nonce }
    IN  IF same_origin # {} THEN same_origin ELSE same_sponsor

\* C38 as stated: every row an accepted submit removes from the mempool is
\* the prior row the fee/fork decision was made against; it pays a strictly
\* lower fee than the new row or was admitted on another fork, it is no longer
\* in the Bloom filter afterwards, and the dropped event names it.
C38_AsStated ==
    budget > 0 =>
        \A row \in CallRows :
            \A o \in try_add_tx(DB, row, TRUE) :
                o.result = "Ok" =>
                    \A r \in mempool :
                        (r \notin o.db.mempool /\ r.txid # row.txid) =>
                            /\ r \in DecidedAgainst(row)
                            /\ r.tx_fee < row.tx_fee \/ ~OnOneFork(r.tip, row.tip)
                            /\ o.db.bloom_counter[r.txid] = 0
                            /\ r.txid \in o.event.txids

\* The transactions the writer of the stream has received in full.
WrittenInFull ==
    LET txs == DecodedTxs(stream.fd)
    IN  { i \in 1..Len(txs) : txs[i] # NoTx }

NoTxWrittenTwice ==
    stream.open =>
        LET txs == DecodedTxs(stream.fd)
        IN  \A i, j \in WrittenInFull : txs[i] = txs[j] => i = j

\* The round of stream_txs that loaded a transaction comes to its end.
LoadedRoundEnds == conns[Peer].pc = "find_page" /\ conns'[Peer].pc # "find_page"

\* C39 as stated: while stream_txs is called on one stream state and other
\* connections commit submits, replacements and garbage collections between
\* its statements, the cursor last_txid never decreases, is strictly higher at
\* the end of every round that loaded a transaction, and the writer never
\* receives a transaction twice.
C39_AsStated ==
    /\ []NoTxWrittenTwice
    /\ [][ (stream.open /\ stream'.open) =>
             /\ stream'.query.last_txid >= stream.query.last_txid
             /\ LoadedRoundEnds => stream'.query.last_txid > stream.query.last_txid ]_vars

\* A pass of iterate_candidates has returned.
PassReturned == conns[Miner].pc = "returned"

\* C40 as stated: when other connections commit writes between the page
\* queries of one pass of iterate_candidates, the pass has called the callback
\* at most once per origin address, and for every origin address that had an
\* eligible row at its account nonce throughout the pass.
C40_AsStated ==
    PassReturned =>
        LET passed == conns[Miner].w.passed
        IN  /\ \A i, j \in 1..Len(passed) :
                  i # j => OriginOfTxid(passed[i]) # OriginOfTxid(passed[j])
            /\ conns[Miner].gapless =>
                  \A a \in conns[Miner].eligible :
                      \E i \in 1..Len(passed) : OriginOfTxid(passed[i]) = a
====
